---- MODULE Spec2Model ----
(***************************************************************************)
(* Tiendo front-end scripts: the account modal of the shop header          *)
(* (static/js/header.js), the registration page script                     *)
(* (static/js/register.js), the admin shell (static/js/admin_index.js),    *)
(* the product page (unnamed/part_000) and the account page                *)
(* (static/js/user.js).                                                    *)
(*                                                                         *)
(* One browser page instance is modelled.  `page` says which page was      *)
(* loaded: "store" runs header.js (and register.js), "admin" runs          *)
(* admin_index.js, "product" runs part_000, "user" runs user.js.           *)
(* JavaScript is single threaded: every action below is                    *)
(* one run-to-completion step of the event loop, i.e. a DOM event handler  *)
(* up to its first await, or the continuation of a handler when the        *)
(* response it awaits arrives.  Responses arrive in any order.             *)
(*                                                                         *)
(* innerHTML is modelled as the sequence of the ids of the elements of     *)
(* the markup, in document order.                                          *)
(***************************************************************************)
EXTENDS Integers, Sequences, FiniteSets, Bags

VARIABLES
    page,      \* "store" | "admin" | "product" | "user" | "cart", or
               \* "header": a page while header.js is still starting up
    modal,     \* account modal: #modal / #modal-content (header.js)
    admin,     \* admin shell: session, location, menu, content area, modal
    pending,   \* bag of the fetches of the page that are still in flight
    reg,       \* register.js: state of the registration form handlers
    last,      \* history: the event handled by the last step
    pre,       \* history: what the modals held before the last step
    shown,     \* history: showModal has run at least once
    product,   \* product page: container, form, notifications; the carts
    user,      \* account page: profile, order list, diagnostic log
    cart,      \* cart page: rendered cart, payment controls; the orders
    header     \* header.js start-up: the poll for the header's elements

vars ==
    <<page, modal, admin, pending, reg, last, pre, shown, product, user, cart,
      header>>

\* ------------------------------------------------------------------ bounds

\* No more than this many fetches of one page are in flight at a time.
MaxInFlight == 2

\* No more than this many submits of the quantity form get past its check.
MaxSubmits == 2

\* ---------------------------------------------------------- markup helpers

Range(s) == {s[i] : i \in 1..Len(s)}

\* header.js 63-68: the close control followed by the content.
addCloseButton(content) == <<"modal-close">> \o content

\* header.js 70-76: the default two-option menu.
modalInicial ==
    addCloseButton(<<"modal-titulo", "btn-register", "btn-login">>)

\* header.js 143-145 / 161-163: the fixed inline error paragraph.
ErrorParagraph == <<"p-error">>

\* What #modal-content holds in the served page, before any script wrote it.
StaticMarkup == <<>>

\* The server's fragments (templates are not part of the scripts).  The
\* register fragment carries a script element, as fragments may.
RegisterTemplate == <<"form-registro", "go-login", "script-inline:registro">>
LoginTemplate    == <<"form-login", "go-register">>
ErrorPage        == <<"server-error-page">>

Template(url) ==
    IF url = "/register-template" THEN RegisterTemplate ELSE LoginTemplate

\* The ways a fetch(url) can complete: a 2xx response carrying the template,
\* a non-2xx response carrying the server's error page, a rejected promise.
Responses(url) ==
    { [kind |-> "ok",      ok |-> TRUE,  text |-> Template(url)],
      [kind |-> "http",    ok |-> FALSE, text |-> ErrorPage],
      [kind |-> "network", ok |-> FALSE, text |-> <<>>] }

\* ------------------------------------------------------- header.js: modal

\* header.js 85-89.  Replacing innerHTML creates a new #modal-close element,
\* which carries no direct listener.  sizedFor is history: the content that
\* was written by the step that last wrote the size classes.
resetModal(m) ==
    [m EXCEPT !.content = modalInicial,
              !.large = FALSE,
              !.small = TRUE,
              !.closeBound = FALSE,
              !.sizedFor = modalInicial]

\* Mutant of showModal: clears the hidden flag without resetting the content.
showModal_flagOnly(m) == [m EXCEPT !.hidden = FALSE]

\* header.js 95-99.
showModal(m) == [resetModal(m) EXCEPT !.hidden = FALSE]

\* Mutant of hideModal: sets the hidden flag without resetting the content.
hideModal_flagOnly(m) == [m EXCEPT !.hidden = TRUE]

\* header.js 104-107.
hideModal(m) == resetModal([m EXCEPT !.hidden = TRUE])

\* header.js 116-121: binds hideModal to #modal-close when there is one.
setupCloseHandler(m) ==
    [m EXCEPT !.closeBound = @ \/ ("modal-close" \in Range(m.content))]

\* Mutant of modalListenerHides: the listener hides on every click that
\* reaches #modal, its children's included.
modalListenerHides_anyTarget(target) == TRUE

\* header.js 124: the condition of the listener on #modal.
modalListenerHides(target) == target = "modal" \/ target = "modal-close"

\* header.js 132 / 150: the url the listener on #modal-content fetches.
contentListenerUrl(target) ==
    IF target \in {"btn-register", "go-register"} THEN "/register-template"
    ELSE IF target \in {"btn-login", "go-login"} THEN "/login-template"
    ELSE "none"

\* header.js 136-140: the register branch after the awaits.
renderRegister(m, text) ==
    setupCloseHandler(
        [m EXCEPT !.content = addCloseButton(text),
                  !.large = TRUE,
                  !.small = FALSE,
                  !.closeBound = FALSE,
                  !.sizedFor = addCloseButton(text)])

\* header.js 154-158: the login branch after the awaits.
renderLogin(m, text) ==
    setupCloseHandler(
        [m EXCEPT !.content = addCloseButton(text),
                  !.large = FALSE,
                  !.small = TRUE,
                  !.closeBound = FALSE,
                  !.sizedFor = addCloseButton(text)])

\* header.js 141-147 / 159-165: the catch blocks.
renderError(m) ==
    setupCloseHandler(
        [m EXCEPT !.content = addCloseButton(ErrorParagraph),
                  !.closeBound = FALSE])

\* ------------------------------------------------------------- bag helpers

InFlight(b) == BagCardinality(b)
Add(b, r)    == b (+) SetToBag({r})
Remove(b, r) == b (-) SetToBag({r})

\* history: a fetch that was in flight when the modal was hidden.
MarkStale(b) ==
    LET olds == BagToSet(b)
        news == {[r EXCEPT !.stale = TRUE] : r \in olds}
        count(n) == (IF [n EXCEPT !.stale = FALSE] \in olds
                        THEN b[[n EXCEPT !.stale = FALSE]] ELSE 0)
                    + (IF n \in olds THEN b[n] ELSE 0)
    IN  [n \in news |-> count(n)]

\* The fetches in flight of page p, when p is the page shown.
Requests(p) == IF page = p THEN BagToSet(pending) ELSE {}

\* history record of one step: the event, the element or handler it
\* concerns, its outcome (alert, response kind), the text a response carried,
\* the url and staleness of the fetch it completed, the inline scripts it ran,
\* the status code of the response it handled (0 when there is none), and
\* the field values of the form it submitted (<<>> when there is none).
Step(ev, tgt, out, text, url, stale, ran) ==
    [ev |-> ev, tgt |-> tgt, out |-> out, text |-> text,
     url |-> url, stale |-> stale, ran |-> ran, status |-> 0, form |-> <<>>]

\* history record of what a step started from: the account modal, and the
\* body of the admin dialog.
Before(m, body) == [modal |-> m, body |-> body]

Event(ev, tgt, out, text) == Step(ev, tgt, out, text, "none", FALSE, <<>>)

\* --------------------------------------------- register.js: form validation

\* Field values are sequences of characters.  A character of the ASCII range
\* is the string of that one character; any other character is the string
\* naming its code point, "U+00E9" for U+00E9.

\* The white space of \s, of String.prototype.trim and of parseInt: the
\* WhiteSpace and LineTerminator code points of ECMAScript.
WhiteSpace ==
    {"\t", "\n", "U+000B", "\f", "\r", " ", "U+00A0", "U+1680",
     "U+2000", "U+2001", "U+2002", "U+2003", "U+2004", "U+2005", "U+2006",
     "U+2007", "U+2008", "U+2009", "U+200A", "U+2028", "U+2029", "U+202F",
     "U+205F", "U+3000", "U+FEFF"}

IsSpace(c) == c \in WhiteSpace

RECURSIVE trimStart(_)
trimStart(s) ==
    IF s # <<>> /\ IsSpace(Head(s)) THEN trimStart(Tail(s)) ELSE s

RECURSIVE trimEnd(_)
trimEnd(s) ==
    IF s # <<>> /\ IsSpace(s[Len(s)])
        THEN trimEnd(SubSeq(s, 1, Len(s) - 1)) ELSE s

\* String.prototype.trim, register.js 64-66.
trim(s) == trimEnd(trimStart(s))

\* One or more characters, none of them white space or "@": [^\s@]+
PlainRun(s, from, to) ==
    /\ from <= to
    /\ \A i \in from..to : ~IsSpace(s[i]) /\ s[i] # "@"

\* register.js 79: /^[^\s@]+@[^\s@]+\.[^\s@]+$/ .test(s)
emailRegex(s) ==
    \E a \in 1..Len(s) : \E d \in 1..Len(s) :
        /\ s[a] = "@"
        /\ s[d] = "."
        /\ PlainRun(s, 1, a - 1)
        /\ PlainRun(s, a + 1, d - 1)
        /\ PlainRun(s, d + 1, Len(s))

\* register.js 58: the shortest password accepted.
MinPasswordLen == 6

\* A submit handler that would not test the e-mail pattern.
validarFormulario_sinCorreo(f) ==
    IF f.contrasena # f.confirmar THEN "no-coinciden"
    ELSE IF Len(f.contrasena) < MinPasswordLen THEN "contrasena-corta"
    ELSE IF \/ trim(f.nombre) = <<>>
            \/ trim(f.apellido) = <<>>
            \/ trim(f.correo) = <<>>
            \/ f.contrasena = <<>> THEN "campos-obligatorios"
    ELSE "none"

\* register.js 53-83: the alert the submit handler shows and returns after,
\* or "none" when the form passes every check.
validarFormulario(f) ==
    IF f.contrasena # f.confirmar THEN "no-coinciden"
    ELSE IF Len(f.contrasena) < MinPasswordLen THEN "contrasena-corta"
    ELSE IF \/ trim(f.nombre) = <<>>
            \/ trim(f.apellido) = <<>>
            \/ trim(f.correo) = <<>>
            \/ f.contrasena = <<>> THEN "campos-obligatorios"
    ELSE IF ~emailRegex(trim(f.correo)) THEN "correo-invalido"
    ELSE "none"

\* The values a user may have typed when the form is submitted.
Pw5 == <<"a", "b", "c", "1", "2">>
Pw6 == <<"a", "b", "c", "1", "2", "3">>
Pw6b == <<"a", "b", "c", "1", "2", "4">>
Correo == <<"a", "@", "b", ".", "c">>
ValidForm ==
    [contrasena |-> Pw6, confirmar |-> Pw6,
     nombre |-> <<"U+00E9">>, apellido |-> <<"b">>, correo |-> Correo]
FormInputs ==
    { ValidForm,
      [ValidForm EXCEPT !.correo = <<"U+00A0">> \o Correo \o <<"\n">>],
      [ValidForm EXCEPT !.confirmar = Pw6b],
      [ValidForm EXCEPT !.contrasena = Pw5, !.confirmar = Pw5],
      [ValidForm EXCEPT !.contrasena = <<>>, !.confirmar = <<>>],
      [ValidForm EXCEPT !.nombre = <<>>],
      [ValidForm EXCEPT !.nombre = <<" ">>],
      [ValidForm EXCEPT !.apellido = <<"U+3000", "\t">>],
      [ValidForm EXCEPT !.correo = <<>>],
      [ValidForm EXCEPT !.correo = <<"a", "@", "b">>],
      [ValidForm EXCEPT !.correo = <<"a", " ", "@", "b", ".", "c">>],
      [ValidForm EXCEPT !.correo = <<"a", "@", "@", "b", ".", "c">>],
      [ValidForm EXCEPT !.correo = <<"@", "b", ".", "c">>],
      [ValidForm EXCEPT !.correo = <<"a", "@", "b", ".">>] }

\* The values the two password fields can hold at an input event:
\* #contrasena first, #confirmar_contrasena second.
PasswordPairs ==
    { <<<<>>, <<>>>>, <<Pw6, <<>>>>, <<<<>>, Pw6>>, <<Pw5, Pw5>>,
      <<Pw6, Pw6>>, <<Pw6, Pw6b>> }

\* An input listener that would leave the previous indicator in place.
validarContrasenas_sinQuitar(r, contrasena, confirmar) ==
    [r EXCEPT !.mensajes =
        @ \o (IF contrasena # <<>> /\ confirmar # <<>>
                THEN << IF contrasena = confirmar
                          THEN "password-match" ELSE "password-mismatch" >>
                ELSE <<>>)]

\* register.js 20-43, for the values the two fields hold.  mensajes lists
\* the elements with id 'mensaje-contrasena' in document order, each by
\* its class name; getElementById finds the first of them.
validarContrasenas(r, contrasena, confirmar) ==
    [r EXCEPT !.mensajes =
        (IF @ # <<>> THEN Tail(@) ELSE <<>>)
        \o (IF contrasena # <<>> /\ confirmar # <<>>
              THEN << IF contrasena = confirmar
                        THEN "password-match" ELSE "password-mismatch" >>
              ELSE <<>>)]

\* A submit handler that would leave the button enabled while it waits.
enviando_sinDeshabilitar(r) ==
    [r EXCEPT !.label = "Registrando...", !.posts = @ + 1]

\* register.js 88-99: the button is relabelled and disabled (busy), and the
\* POST is sent; posts counts the POST requests in flight.
enviando(r) ==
    [r EXCEPT !.label = "Registrando...", !.busy = TRUE, !.posts = @ + 1]

\* register.js 127-133: the finally block, after the POST has completed.
finalizado(r) ==
    [r EXCEPT !.label = "Crear cuenta", !.busy = FALSE, !.posts = @ - 1]

\* The ways POST /api/v1/clientes/ can complete (register.js 93-113).
RegisterOutcomes == {"created", "http-error", "bad-json", "network"}

\* ------------------------------------------------ admin_index.js: helpers

\* The .menu-item elements of the served admin page and their data-load
\* attribute ("" when the item has none).
MenuItems == {"item-productos", "item-pedidos", "item-inicio"}

dataLoad(item) ==
    IF item = "item-productos" THEN "/admin/productos"
    ELSE IF item = "item-pedidos" THEN "/admin/pedidos"
    ELSE ""

\* The module fragments the server renders.  Script elements are the
\* entries "script-src:..." (external) and "script-inline:..." (inline).
ModuleHtml(url) ==
    IF url = "/admin/productos"
        THEN <<"h2-productos", "script-src:productos.js", "btn-nuevo">>
        ELSE <<"h2-pedidos", "script-inline:pedidos">>

ExternalScripts == {"script-src:productos.js", "script-src:form.js"}
InlineScripts   ==
    {"script-inline:pedidos", "script-inline:form", "script-inline:registro",
     "script-inline:1x"}

\* Script elements with an attribute whose name the parser accepted and
\* setAttribute rejects (as in <script 1x="">): copying it throws.
BadAttribute == {"script-inline:1x"}

\* The "pedidos" fragment when it starts with such a script element.
BadModuleHtml == <<"script-inline:1x">> \o ModuleHtml("/admin/pedidos")

\* The dialogs the module scripts open through window.adminOpenModal.
ModalHtmls ==
    { <<"form-producto", "script-src:form.js", "script-inline:form">>,
      <<"p-aviso">> }

\* The ways a fetch of the admin page can complete: a response with one of
\* these status codes, or a rejected promise (status 0).
Statuses == {200, 401, 500}

AdminResponses(url) ==
    { [kind |-> "http", status |-> st, ok |-> (st \in 200..299),
       text |-> IF st \in 200..299 THEN ModuleHtml(url) ELSE ErrorPage]
        : st \in Statuses }
    \cup { [kind |-> "network", status |-> 0, ok |-> FALSE, text |-> <<>>] }

\* The ways a module fetch can complete: the "pedidos" fragment served with
\* status 200 is the usual one or the one with the rejected attribute name.
ModuleResponses(url) ==
    AdminResponses(url)
        \cup { [kind |-> "http", status |-> 200, ok |-> TRUE,
                text |-> BadModuleHtml] : u \in {url} \cap {"/admin/pedidos"} }

\* admin_index.js 24, 55, 58, 69, 73: the redirect target.
LoginUrl == "/admin/login"

\* admin_index.js 38: the inline error panel for a failure message.
errorPanel(message) == <<"div.error", message>>

\* admin_index.js 94: container.querySelectorAll("script"), document order.
scriptsOf(markup) ==
    SelectSeq(markup, LAMBDA e : e \in ExternalScripts \cup InlineScripts)

\* admin_index.js 100-102: the attribute copy, which is outside the try
\* block, throws for this script: the exception leaves forEach and
\* executeScripts.
throwsAt(markup, i) == scriptsOf(markup)[i] \in BadAttribute

throws(markup) == \E i \in 1..Len(scriptsOf(markup)) : throwsAt(markup, i)

\* A loop that would guard each script by itself and go on to the next.
activated_guarded(markup) ==
    SelectSeq(scriptsOf(markup), LAMBDA e : e \notin BadAttribute)

\* admin_index.js 96-118: the scripts the loop has activated when it ends:
\* all of them, or those before the first one whose activation throws.
activated(markup) ==
    LET all == scriptsOf(markup)
        bad == {i \in 1..Len(all) : throwsAt(markup, i)}
    IN  IF bad = {} THEN all
        ELSE SubSeq(all, 1, (CHOOSE i \in bad : \A j \in bad : i <= j) - 1)

\* admin_index.js 105-108: the scripts of the container appended to head.
headAppends(markup) ==
    SelectSeq(activated(markup), LAMBDA e : e \in ExternalScripts)

\* admin_index.js 111-114: the inline scripts of the container that were
\* appended to body, run, and removed again.
inlineRuns(markup) ==
    SelectSeq(activated(markup), LAMBDA e : e \in InlineScripts)

\* The message of the exception that setAttribute throws.
ScriptError == "InvalidCharacterError"

\* The attribute names of a script element of the fragments.
Attributes(e) ==
    IF e = "script-src:productos.js" THEN {"src", "defer"}
    ELSE IF e = "script-src:form.js" THEN {"src", "async"}
    ELSE IF e \in BadAttribute THEN {"1x"}
    ELSE {"type"}

\* admin_index.js 97-108: the attributes of newScript when it is inserted:
\* every attribute of oldScript is copied; for an external script src is
\* set again and async = false removes the async attribute.
newScriptAttributes(e) ==
    LET copied == {name \in Attributes(e) : TRUE}
    IN  IF e \in ExternalScripts
            THEN (copied \cup {"src"}) \ {"async"}
            ELSE copied

\* admin_index.js 113-114: document.body.appendChild / removeChild.
appendChild(children, e) == Append(children, e)
removeChild(children, e) == SelectSeq(children, LAMBDA c : c # e)

\* admin_index.js 109-117 for each inline script in turn: the children of
\* document.body after the loop.
RECURSIVE bodyAfter(_, _)
bodyAfter(children, scripts) ==
    IF scripts = <<>> THEN children
    ELSE bodyAfter(removeChild(appendChild(children, Head(scripts)),
                               Head(scripts)),
                   Tail(scripts))

\* admin_index.js 93-120.  head counts the script elements appended to
\* document.head; children are the children of document.body.
executeScripts(a, markup) ==
    [a EXCEPT !.head = @ + Len(headAppends(markup)),
              !.children = bodyAfter(@, inlineRuns(markup))]

\* admin_index.js 77-84.  timers is the queue of the executeScripts timers
\* that wait (equal delays: they fire in the order they were set); each is
\* tagged with the html its openModal call rendered, which is history: the
\* callback itself reads #modal-body when it fires.
openModal(a, html) ==
    [a EXCEPT !.body = html, !.hidden = FALSE, !.aria = "false",
              !.timers = Append(@, html)]

\* A closeModal that would leave aria-hidden as it was.
closeModal_keepAria(a) == [a EXCEPT !.hidden = TRUE, !.body = <<>>]

\* admin_index.js 86-90.
closeModal(a) ==
    [a EXCEPT !.hidden = TRUE, !.aria = "true", !.body = <<>>]

\* admin_index.js 44-47: the listeners on #modal-close and on #admin-modal.
adminClickCloses(target) == target = "modal-close" \/ target = "admin-modal"

\* A session check that would redirect on status 401 alone.
checkSessionResume_only401(a, resp) ==
    IF resp.kind = "http" /\ resp.status = 401
        THEN [a EXCEPT !.session = "failed", !.location = LoginUrl]
        ELSE [a EXCEPT !.session = "ok"]

\* admin_index.js 68-74: checkSession after its await.
checkSessionResume(a, resp) ==
    IF resp.kind = "network" \/ ~resp.ok
        THEN [a EXCEPT !.session = "failed", !.location = LoginUrl]
        ELSE [a EXCEPT !.session = "ok"]

\* A click that would leave the highlighting where it was.
activate_noop(a, item) == a

\* A click that would highlight the item next to those already active.
activate_keepOthers(a, item) == [a EXCEPT !.active = @ \cup {item}]

\* admin_index.js 16-17.
activate(a, item) == [a EXCEPT !.active = {item}]

\* admin_index.js 30-40: the then callback after executeScripts(contentArea):
\* an exception thrown there rejects the chain and the catch callback
\* replaces the rendered fragment by the error panel.
scriptsResume(a, markup) ==
    IF throws(markup) THEN [a EXCEPT !.contentArea = errorPanel(ScriptError)]
    ELSE a

\* A promise chain that would render only into an untouched content area.
moduleResume_keepFirst(a, resp) ==
    IF resp.kind = "network"
        THEN [a EXCEPT !.contentArea = errorPanel("Failed to fetch")]
    ELSE IF resp.status = 401
        THEN [a EXCEPT !.location = LoginUrl]
    ELSE IF ~resp.ok
        THEN [a EXCEPT !.contentArea = errorPanel("Error loading module")]
    ELSE IF a.contentArea # StaticMarkup THEN a
    ELSE scriptsResume(
             executeScripts([a EXCEPT !.contentArea = resp.text], resp.text),
             resp.text)

\* A promise chain without the special case of status 401.
moduleResume_no401(a, resp) ==
    IF resp.kind = "network"
        THEN [a EXCEPT !.contentArea = errorPanel("Failed to fetch")]
    ELSE IF ~resp.ok
        THEN [a EXCEPT !.contentArea = errorPanel("Error loading module")]
    ELSE scriptsResume(
             executeScripts([a EXCEPT !.contentArea = resp.text], resp.text),
             resp.text)

\* admin_index.js 22-40: the promise chain of one menu click.
moduleResume(a, resp) ==
    IF resp.kind = "network"
        THEN [a EXCEPT !.contentArea = errorPanel("Failed to fetch")]
    ELSE IF resp.status = 401
        THEN [a EXCEPT !.location = LoginUrl]
    ELSE IF ~resp.ok
        THEN [a EXCEPT !.contentArea = errorPanel("Error loading module")]
    ELSE scriptsResume(
             executeScripts([a EXCEPT !.contentArea = resp.text], resp.text),
             resp.text)

\* A logout whose completion would leave the page where it is.
logoutResume_stay(a) == a

\* admin_index.js 54-59: the then and the catch callback alike.
logoutResume(a) == [a EXCEPT !.location = LoginUrl]

\* No more than this many executeScripts timers are waiting at a time.
MaxTimers == 2

\* No more than this many script elements are appended to document.head.
MaxHead == 2

\* ------------------------------------------- part_000: product page helpers

\* A number as JavaScript holds it: NaN, or an integer.
NaN == [nan |-> TRUE, val |-> 0]
Num(n) == [nan |-> FALSE, val |-> n]

\* The digits of parseInt, in the order of their values; the letters count
\* in either case.
Digits ==
    <<"0", "1", "2", "3", "4", "5", "6", "7", "8", "9",
      "a", "b", "c", "d", "e", "f">>
UpperDigits == <<"A", "B", "C", "D", "E", "F">>
DigitValue(c) ==
    IF \E i \in 1..Len(Digits) : Digits[i] = c
        THEN (CHOOSE i \in 1..Len(Digits) : Digits[i] = c) - 1
    ELSE IF \E i \in 1..Len(UpperDigits) : UpperDigits[i] = c
        THEN (CHOOSE i \in 1..Len(UpperDigits) : UpperDigits[i] = c) + 9
    ELSE Len(Digits)
IsDigit(c, radix) == DigitValue(c) < radix

\* The longest prefix of s made of digits of the radix.
RECURSIVE leadingDigits(_, _)
leadingDigits(s, radix) ==
    IF s # <<>> /\ IsDigit(Head(s), radix)
        THEN <<Head(s)>> \o leadingDigits(Tail(s), radix)
        ELSE <<>>

RECURSIVE digitsValue(_, _)
digitsValue(ds, radix) ==
    IF ds = <<>> THEN 0
    ELSE radix * digitsValue(SubSeq(ds, 1, Len(ds) - 1), radix)
            + DigitValue(ds[Len(ds)])

\* part_000 104: parseInt(string), no radix given: leading white space
\* skipped, an optional sign, radix 16 after a 0x or 0X prefix and 10
\* otherwise, then the longest run of digits of the radix; NaN when there is
\* no digit.
parseInt(s) ==
    LET t == trimStart(s)
        signed == t # <<>> /\ Head(t) \in {"-", "+"}
        u == IF signed THEN Tail(t) ELSE t
        hex == Len(u) >= 2 /\ u[1] = "0" /\ u[2] \in {"x", "X"}
        radix == IF hex THEN Len(Digits) ELSE Len(Digits) - Len(UpperDigits)
        ds == leadingDigits(IF hex THEN Tail(Tail(u)) ELSE u, radix)
    IN  IF ds = <<>> THEN NaN
        ELSE IF signed /\ Head(t) = "-" THEN Num(0 - digitsValue(ds, radix))
        ELSE Num(digitsValue(ds, radix))

\* part_000 106: cantidad < 1.  A comparison with NaN is false.
cantidadRechazada(c) == ~c.nan /\ c.val < 1

\* The values #cantidad can hold when the form is submitted.
QuantityInputs ==
    { <<>>, <<"a", "b", "c">>, <<"0">>, <<"-", "2">>,
      <<"\t", "3">>, <<"2", ".", "5">>, <<"0", "x", "3">> }

\* The product GET /api/v1/productos/7 answers with, and no product.
Producto == [id_producto |-> 7, nombre |-> "Camiseta", precio |-> 25]
NoProducto == [id_producto |-> 0, nombre |-> "", precio |-> 0]

\* The status codes a request of the product page or of the account page
\* can be answered with.
ApiStatuses == {200, 404, 500}

\* What the body of a response can be: JSON without a detail member, JSON
\* with one (an error body), or text that is no JSON.
SubmitBodies == {"json", "detail", "no-json"}

\* The ways a request can complete whose handler parses the body of a 2xx
\* answer only (part_000 16-26, user.js 18-30, 144-162): a response, or a
\* rejected promise (status 0).
ApiResponses ==
    { resp \in [kind : {"http"}, status : ApiStatuses, ok : BOOLEAN,
                body : SubmitBodies] :
        /\ resp.ok = (resp.status \in 200..299)
        /\ resp.body # "detail"
        /\ ~resp.ok => resp.body = "json" }
    \cup { [kind |-> "network", status |-> 0, ok |-> FALSE, body |-> "none"] }

\* The ways a request can complete whose handler parses the body of every
\* answer (part_000 113-165, user.js 58-63).
SubmitResponses ==
    { resp \in [kind : {"http"}, status : ApiStatuses, ok : BOOLEAN,
                body : SubmitBodies] :
        /\ resp.ok = (resp.status \in 200..299)
        /\ resp.ok => resp.body # "detail" }
    \cup { [kind |-> "network", status |-> 0, ok |-> FALSE, body |-> "none"] }

\* response.json() (part_000 26, 118, 136, 161, 165) rejects with a
\* SyntaxError.
jsonRejects(resp) == resp.kind = "http" /\ resp.body = "no-json"

SyntaxErrorAlert == "Error: ${SyntaxError.message}"

\* part_000 160-176: the alert after the answer to the detail post, "none"
\* when the handler reaches its success message.
alertaDetalle(resp) ==
    IF resp.kind = "network" THEN "Error: Failed to fetch"
    ELSE IF jsonRejects(resp) THEN SyntaxErrorAlert
    ELSE IF ~resp.ok
        THEN (IF resp.body = "detail" THEN "Error: ${errorData.detail}"
              ELSE "Error: Error al agregar al carrito")
    ELSE "none"

\* A message shown to the user: its text, and the status code the text
\* interpolates (0 when it interpolates none).
Mensaje(texto, status) == [texto |-> texto, status |-> status]
NoMensaje == Mensaje("none", 0)

\* A primary load that would report status 404 like any other status.
errorDeCarga_sin404(resp) ==
    IF resp.kind = "network" THEN Mensaje("Failed to fetch", 0)
    ELSE IF resp.ok THEN Mensaje("${SyntaxError.message}", 0)
    ELSE Mensaje("Error ${response.status}: ${errorText}", resp.status)

\* part_000 18-26, 33-35: the message of the error the load throws, for a
\* response that does not give a product: a rejected fetch, a status outside
\* 200..299, or a 2xx body that response.json() rejects.
errorDeCarga(resp) ==
    IF resp.kind = "network" THEN Mensaje("Failed to fetch", 0)
    ELSE IF resp.ok THEN Mensaje("${SyntaxError.message}", 0)
    ELSE IF resp.status = 404 THEN Mensaje("Producto no encontrado", 0)
    ELSE Mensaje("Error ${response.status}: ${errorText}", resp.status)

\* part_000 222-252: the error panel replaces what .producto-container held.
mostrarError(p, mensaje) ==
    [p EXCEPT !.container = <<"error-panel">>, !.mensaje = mensaje]

\* part_000 56-79: the fields of the product written into the container.
actualizarProductoEnDOM(p, producto) == [p EXCEPT !.producto = producto]

\* part_000 93-101: the submit listener is attached to #formCantidad.
configurarFormulario(p) == [p EXCEPT !.formBound = TRUE]

\* A cart lookup that would take the customer's last cart.
carritoExistente_ultimo(carritos) ==
    IF Len(carritos) > 0 THEN carritos[Len(carritos)] ELSE 0

\* part_000 117-120: the id of the first cart of the list, 0 (undefined)
\* when the list is empty.
carritoExistente(carritos) ==
    IF Len(carritos) > 0 THEN carritos[1] ELSE 0

\* The id the server gives a cart it creates.
nuevoId(carritos) ==
    IF carritos = <<>> THEN 1
    ELSE 1 + CHOOSE m \in Range(carritos) : \A c \in Range(carritos) : c <= m

\* part_000 146-150: the body of POST /api/v1/carritos/{id}/detalles.
detalleCarrito(producto, cantidad) ==
    [id_producto |-> producto.id_producto, cantidad |-> cantidad,
     precio_unitario |-> producto.precio]

\* part_000 167: the text of the success notification.
mensajeExito(cantidad, producto) ==
    [cantidad |-> cantidad, nombre |-> producto.nombre]

\* part_000 165-171, 187-214: the notification is appended to the body
\* and the redirect to the cart is scheduled.
agregado(p, cantidad) ==
    [p EXCEPT !.notas = Append(@, mensajeExito(cantidad, p.producto)),
              !.timers = @ + 1]

\* A request of the product page: the url, and the locals of the submit
\* handler that waits for it.
ProductRequest(by, url, cantidad, carritoId) ==
    [by |-> by, url |-> url, stale |-> FALSE,
     cantidad |-> cantidad, carritoId |-> carritoId]

\* history record of one step of the product page: the event, how the
\* request it handled completed, the quantity typed and parsed, the alert
\* shown, the request issued, the cart id the handler holds.
ProductStep(ev, resp, typed, cantidad, alert, issued, carritoId) ==
    [ev |-> ev, out |-> resp.kind, status |-> resp.status,
     typed |-> typed, cantidad |-> cantidad, alert |-> alert,
     issued |-> issued, carritoId |-> carritoId]

NoResponse == [kind |-> "none", status |-> 0, ok |-> FALSE]

\* --------------------------------------------- user.js: account page helpers

\* What the server answers with: the customer, the customer's orders, the
\* product ids of the detail lines of an order.
Cliente == [nombre |-> "Ana", apellido |-> "Ruiz"]
PedidoLists == { <<>>, <<11>>, <<11, 12>> }
DetalleLists == { <<>>, <<7>>, <<7, 8>> }

\* The positions an order can have in #pedidos-list.
PedidoIndices == UNION { DOMAIN pedidos : pedidos \in PedidoLists }

\* user.js 91-115: the name shown in #user-name.
renderUsuario(u, cliente) ==
    [u EXCEPT !.nombre = <<cliente.nombre, cliente.apellido>>]

\* A request of the account page: the url, and for a product fetch the
\* index of the detail line it belongs to.
UserRequest(by, url, index) ==
    [by |-> by, url |-> url, stale |-> FALSE, index |-> index]

DetallesRequest == UserRequest("render", "/api/v1/pedidos/{id}/detalles", 0)
EnvioRequest == UserRequest("render", "/api/v1/envios/pedido/{id}", 0)
ProductoRequest(i) == UserRequest("render", "/api/v1/productos/{id}", i)

\* user.js 128-140: renderPedidos up to its return or its first await.
\* cola holds the orders not yet appended to #pedidos-list.
renderPedidos(u, pedidos) ==
    [u EXCEPT !.lista = <<>>, !.vacio = (pedidos = <<>>), !.cola = pedidos]

\* user.js 171-221: the order at the head of cola is appended to the list,
\* with the products that were fetched and the shipment button when a
\* shipment was fetched; 223-234: after the last order the toggle listeners
\* are attached.
appendPedido(u) ==
    [u EXCEPT
        !.lista = Append(@,
            [pedido |-> Head(u.cola),
             productos |-> SelectSeq(
                 [i \in 1..Len(u.detalles) |->
                    IF u.productos[i] = "ok" THEN u.detalles[i] ELSE 0],
                 LAMBDA x : x # 0),
             envio |-> u.envio, abierto |-> FALSE]),
        !.cola = Tail(@),
        !.detalles = <<>>, !.productos = <<>>, !.envio = FALSE,
        !.listeners = (Tail(u.cola) = <<>>)]

\* user.js 157-169: Promise.all settles when no product fetch is pending.
todosResueltos(u) == \A i \in 1..Len(u.productos) : u.productos[i] # "pending"

\* user.js 139-140, 220-221: the loop fetches the details of the order at
\* the head of cola, when there is one.
siguientePedido(u, b) ==
    IF u.cola # <<>> THEN Add(b, DetallesRequest) ELSE b

\* history record of one step of the account page: the event, how the
\* request it handled completed, whether the step threw an error (a throw
\* statement, a rejected await), the calls of console.error and the
\* user-visible actions (alert, panel, redirect) it made.
UserStep(ev, resp, failed, logged, visible) ==
    [ev |-> ev, out |-> resp.kind, status |-> resp.status,
     failed |-> failed, logged |-> logged, visible |-> visible]

\* ------------------------------------------------------------------- Init

\* The value of product and of user on a page that runs neither script.
NotLoaded == <<>>

\* The product page as served: the product template, no listener on the
\* quantity form.  carritos and detalles are the server's: the carts of
\* customer 1 and the detail lines posted to them.
ProductInit ==
    [container |-> <<"producto-detalle", "formCantidad">>,
     mensaje |-> NoMensaje, producto |-> NoProducto, formBound |-> FALSE,
     notas |-> <<>>, timers |-> 0, location |-> "/product",
     carritos |-> <<>>, detalles |-> <<>>, submits |-> 0]

\* The account page as served: no name, an empty order list, no listener
\* on the edit form.
UserInit ==
    [nombre |-> <<>>, formBound |-> FALSE, section |-> "datos",
     lista |-> <<>>, vacio |-> FALSE, listeners |-> FALSE,
     cola |-> <<>>, detalles |-> <<>>, envio |-> FALSE, productos |-> <<>>]

ModalInit ==
    [hidden |-> TRUE, content |-> StaticMarkup,
     large |-> FALSE, small |-> FALSE, closeBound |-> FALSE,
     sizedFor |-> StaticMarkup]

\* header.js 52-61, 109-169 have run: listeners installed, nothing shown.
\* register.js 2-9, 136-137: its handlers exist only when the served page
\* holds #form-registro and #go-login.
\* The admin page as served: nothing loaded, the dialog closed.
\* The children of document.body in the served admin page.
BodyChildren == <<"admin-layout", "admin-modal">>

AdminInit ==
    [session |-> "checking", location |-> "/admin", active |-> {},
     contentArea |-> StaticMarkup, hidden |-> TRUE, aria |-> "true",
     body |-> <<>>, timers |-> <<>>, head |-> 0, children |-> BodyChildren]

\* register.js 2-9: the registration form as served: no indicator, the
\* submit button enabled.  The template is not among the scripts; its button
\* text is taken to be the one the handler restores (register.js 130).
RegInit ==
    [attached |-> FALSE, busy |-> FALSE, mensajes |-> <<>>,
     label |-> "Crear cuenta", posts |-> 0]

SessionRequest ==
    [by |-> "checkSession", url |-> "/admin/check-session", stale |-> FALSE]

InitStore ==
    /\ page = "store"
    /\ admin = AdminInit
    /\ modal = setupCloseHandler(ModalInit)
    /\ pending = EmptyBag
    /\ reg \in { [RegInit EXCEPT !.attached = b] : b \in BOOLEAN }
    /\ last = Event("load", "none", "none", <<>>)
    /\ pre = Before(ModalInit, <<>>)
    /\ product = NotLoaded
    /\ user = NotLoaded
    /\ shown = FALSE
    /\ cart = NotLoaded
    /\ header = NotLoaded

\* ------------------------------------------------------------ store: steps

\* The elements a click can hit while the modal is displayed.
ClickTargets ==
    {"modal", "modal-content"}
        \cup (Range(modal.content) \ (ExternalScripts \cup InlineScripts))

\* header.js 109: click on #btn-cuenta.
AccountClick ==
    /\ page = "store"
    /\ modal' = showModal(modal)
    /\ last' = Event("show", "btn-cuenta", "none", <<>>)
    /\ UNCHANGED <<page, admin, pending, reg>>
    /\ pre' = Before(modal, <<>>)
    /\ UNCHANGED <<product, user, cart, header>>
    /\ shown' = TRUE

\* header.js 119, 123-127, 129-134, 150-152: one click inside the overlay.
\* Listeners run in bubbling order: the one bound to #modal-close itself,
\* the one on #modal-content (up to its await), the one on #modal.
clickModal(m, target) ==
    LET direct == IF target = "modal-close" /\ m.closeBound
                    THEN hideModal(m) ELSE m
    IN  IF modalListenerHides(target) THEN hideModal(direct) ELSE direct

clickFetches(target) ==
    IF target = "modal" THEN "none" ELSE contentListenerUrl(target)

Click(target) ==
    /\ page = "store"
    /\ ~modal.hidden
    /\ target \in ClickTargets
    /\ LET url == clickFetches(target)
           sent == IF url = "none" THEN pending
                   ELSE Add(pending,
                       [by |-> "header", url |-> url, stale |-> FALSE])
           m2 == clickModal(modal, target)
       IN  /\ url # "none" => InFlight(pending) < MaxInFlight
           /\ modal' = m2
           /\ pending' = IF m2.hidden THEN MarkStale(sent) ELSE sent
    /\ last' = Event("click", target, "none", <<>>)
    /\ UNCHANGED <<page, admin, reg>>
    /\ pre' = Before(modal, <<>>)
    /\ UNCHANGED <<product, user, cart, header>>
    /\ UNCHANGED shown

\* header.js 134-147, 152-165: the listener on #modal-content resumes.
headerResume(m, url, resp) ==
    IF ~resp.ok THEN renderError(m)
    ELSE IF url = "/register-template" THEN renderRegister(m, resp.text)
    ELSE renderLogin(m, resp.text)

\* register.js 142-149: the go-login handler resumes.
goLoginResume(m, resp) ==
    IF resp.kind = "network"
        THEN [m EXCEPT !.content = ErrorParagraph, !.closeBound = FALSE]
        ELSE [m EXCEPT !.content = resp.text, !.closeBound = FALSE]

FragmentResponse(r, resp) ==
    /\ page = "store"
    /\ r \in BagToSet(pending)
    /\ resp \in Responses(r.url)
    /\ pending' = Remove(pending, r)
    /\ modal' = IF r.by = "header" THEN headerResume(modal, r.url, resp)
                ELSE goLoginResume(modal, resp)
    /\ last' = Step("response", r.by, resp.kind, resp.text,
                     r.url, r.stale, <<>>)
    /\ UNCHANGED <<page, admin, reg>>
    /\ pre' = Before(modal, <<>>)
    /\ UNCHANGED <<product, user, cart, header>>
    /\ UNCHANGED shown

\* register.js 138-141: click on the page's #go-login.
GoLoginClick ==
    /\ page = "store"
    /\ reg.attached
    /\ InFlight(pending) < MaxInFlight
    /\ pending' = Add(pending,
           [by |-> "registerjs", url |-> "/login-template", stale |-> FALSE])
    /\ last' = Event("go-login", "go-login", "none", <<>>)
    /\ UNCHANGED <<page, admin, modal, reg>>
    /\ pre' = Before(modal, <<>>)
    /\ UNCHANGED <<product, user, cart, header>>
    /\ UNCHANGED shown

\* register.js 45-48: an input event on #contrasena or on
\* #confirmar_contrasena, when the two fields hold these values.
PasswordInput(contrasena, confirmar) ==
    /\ page = "store"
    /\ reg.attached
    /\ <<contrasena, confirmar>> \in PasswordPairs
    /\ reg' = validarContrasenas(reg, contrasena, confirmar)
    /\ last' = [Event("input", "contrasena", "none", <<>>)
                  EXCEPT !.form = [contrasena |-> contrasena,
                                   confirmar |-> confirmar]]
    /\ UNCHANGED <<page, admin, modal, pending>>
    /\ pre' = Before(modal, <<>>)
    /\ UNCHANGED <<product, user, cart, header>>
    /\ UNCHANGED shown

\* register.js 50-99: submit of #form-registro up to the await of the POST.
\* A disabled submit button submits nothing.
RegSubmit(f) ==
    /\ page = "store"
    /\ reg.attached
    /\ ~reg.busy
    /\ LET alert == validarFormulario(f)
       IN  /\ alert = "none" => reg.posts < MaxInFlight
           /\ reg' = IF alert = "none" THEN enviando(reg) ELSE reg
           /\ last' = [Event("submit", "form-registro", alert, <<>>)
                         EXCEPT !.form = f]
    /\ UNCHANGED <<page, admin, modal, pending>>
    /\ pre' = Before(modal, <<>>)
    /\ UNCHANGED <<product, user, cart, header>>
    /\ UNCHANGED shown

\* register.js 119-122: the success path hides #modal.
registroExitoso(m) == [m EXCEPT !.hidden = TRUE]

\* register.js 101-133: the submit handler resumes.
RegResponse(out) ==
    /\ page = "store"
    /\ reg.posts > 0
    /\ out \in RegisterOutcomes
    /\ modal' = IF out = "created" THEN registroExitoso(modal) ELSE modal
    /\ pending' = IF out = "created" THEN MarkStale(pending) ELSE pending
    /\ reg' = finalizado(reg)
    /\ last' = Event("registered", "form-registro", out, <<>>)
    /\ UNCHANGED <<page, admin>>
    /\ pre' = Before(modal, <<>>)
    /\ UNCHANGED <<product, user, cart, header>>
    /\ UNCHANGED shown

NextStore ==
    \/ AccountClick
    \/ \E t \in ClickTargets : Click(t)
    \/ \E r \in BagToSet(pending) : \E resp \in Responses(r.url) :
           FragmentResponse(r, resp)
    \/ GoLoginClick
    \/ \E pair \in PasswordPairs : PasswordInput(pair[1], pair[2])
    \/ \E f \in FormInputs : RegSubmit(f)
    \/ \E out \in RegisterOutcomes : RegResponse(out)

\* ------------------------------------------------------------ admin: steps

\* admin_index.js 1-60: DOMContentLoaded has run: checkSession() is awaiting
\* its response and every listener is installed.
InitAdmin ==
    /\ page = "admin"
    /\ admin = AdminInit
    /\ modal = ModalInit
    /\ pending = SetToBag({SessionRequest})
    /\ reg = RegInit
    /\ last = Event("load", "none", "none", <<>>)
    /\ pre = Before(ModalInit, <<>>)
    /\ product = NotLoaded
    /\ user = NotLoaded
    /\ shown = FALSE
    /\ cart = NotLoaded
    /\ header = NotLoaded

\* admin_index.js 62-75: the response of /admin/check-session arrives.
SessionResponse(resp) ==
    /\ page = "admin"
    /\ SessionRequest \in BagToSet(pending)
    /\ resp \in AdminResponses(SessionRequest.url)
    /\ pending' = Remove(pending, SessionRequest)
    /\ admin' = checkSessionResume(admin, resp)
    /\ last' = [Step("session", "checkSession",
                     IF resp.kind = "network" THEN "network" ELSE "http",
                     <<>>, SessionRequest.url, FALSE, <<>>)
                  EXCEPT !.stale = (admin.location = LoginUrl),
                         !.status = resp.status]
    /\ UNCHANGED <<page, modal, reg>>
    /\ pre' = Before(ModalInit, <<>>)
    /\ UNCHANGED <<product, user, cart, header>>
    /\ UNCHANGED shown

\* admin_index.js 12-21: click on a menu item, up to the fetch.
ItemClick(item) ==
    /\ page = "admin"
    /\ item \in MenuItems
    /\ IF dataLoad(item) = ""
         THEN /\ admin' = admin
              /\ pending' = pending
         ELSE /\ InFlight(pending) < MaxInFlight
              /\ admin' = activate(admin, item)
              /\ pending' = Add(pending,
                     [by |-> "menu", url |-> dataLoad(item), stale |-> FALSE])
    /\ last' = Step("menu-click", item, admin.session, <<>>,
                    dataLoad(item), FALSE, <<>>)
    /\ UNCHANGED <<page, modal, reg>>
    /\ pre' = Before(ModalInit, <<>>)
    /\ UNCHANGED <<product, user, cart, header>>
    /\ UNCHANGED shown

\* admin_index.js 22-40: the response of a module fetch arrives.
ModuleResponse(r, resp) ==
    /\ page = "admin"
    /\ r \in BagToSet(pending)
    /\ r.by = "menu"
    /\ resp \in ModuleResponses(r.url)
    /\ moduleResume(admin, resp).head <= MaxHead
    /\ pending' = Remove(pending, r)
    /\ admin' = moduleResume(admin, resp)
    /\ last' = [Step("module", "content-area", admin.session, resp.text,
                     r.url, FALSE,
                     IF resp.ok THEN activated(resp.text) ELSE <<>>)
                  EXCEPT !.stale = (admin.location = LoginUrl),
                         !.status = resp.status]
    /\ UNCHANGED <<page, modal, reg>>
    /\ pre' = Before(ModalInit, <<>>)
    /\ UNCHANGED <<product, user, cart, header>>
    /\ UNCHANGED shown

\* The elements a click can hit while the admin dialog is displayed.
AdminClickTargets ==
    {"admin-modal", "modal-close", "modal-body"}
        \cup (Range(admin.body) \ (ExternalScripts \cup InlineScripts))

\* admin_index.js 44-47: one click inside the admin dialog.
AdminModalClick(target) ==
    /\ page = "admin"
    /\ ~admin.hidden
    /\ target \in AdminClickTargets
    /\ admin' = IF adminClickCloses(target) THEN closeModal(admin) ELSE admin
    /\ last' = Event("admin-click", target, "none", <<>>)
    /\ UNCHANGED <<page, modal, pending, reg>>
    /\ pre' = Before(ModalInit, admin.body)
    /\ UNCHANGED <<product, user, cart, header>>
    /\ UNCHANGED shown

\* admin_index.js 122: a module script calls window.adminOpenModal(html).
OpenModal(html) ==
    /\ page = "admin"
    /\ html \in ModalHtmls
    /\ Len(admin.timers) < MaxTimers
    /\ admin' = openModal(admin, html)
    /\ last' = Event("openModal", "admin-modal", "none", html)
    /\ UNCHANGED <<page, modal, pending, reg>>
    /\ pre' = Before(ModalInit, admin.body)
    /\ UNCHANGED <<product, user, cart, header>>
    /\ UNCHANGED shown

\* admin_index.js 123: a module script calls window.adminCloseModal().
CloseModal ==
    /\ page = "admin"
    /\ admin' = closeModal(admin)
    /\ last' = Event("closeModal", "admin-modal", "none", <<>>)
    /\ UNCHANGED <<page, modal, pending, reg>>
    /\ pre' = Before(ModalInit, admin.body)
    /\ UNCHANGED <<product, user, cart, header>>
    /\ UNCHANGED shown

\* admin_index.js 83: a timer set by openModal fires.
TimerFires ==
    /\ page = "admin"
    /\ admin.timers # <<>>
    /\ admin.head + Len(headAppends(admin.body)) <= MaxHead
    /\ admin' = executeScripts([admin EXCEPT !.timers = Tail(@)], admin.body)
    /\ last' = Step("timer", "modal-body", "none", admin.body,
                    "none", FALSE, activated(admin.body))
    /\ UNCHANGED <<page, modal, pending, reg>>
    /\ pre' = Before(ModalInit, admin.body)
    /\ UNCHANGED <<product, user, cart, header>>
    /\ UNCHANGED shown

\* admin_index.js 124: a module script calls window.executeScripts over
\* #content-area or #modal-body, whatever the container holds then.  A call
\* over a container without script elements does nothing (96-98: the loop
\* has no element to visit) and is not a step.
ExecuteScriptsCall(container) ==
    /\ page = "admin"
    /\ container \in {"content-area", "modal-body"}
    /\ LET markup == IF container = "content-area" THEN admin.contentArea
                     ELSE admin.body
       IN  /\ scriptsOf(markup) # <<>>
           /\ admin.head + Len(headAppends(markup)) <= MaxHead
           /\ admin' = executeScripts(admin, markup)
           /\ last' = Step("executeScripts", container, "none", markup,
                           "none", FALSE, activated(markup))
    /\ UNCHANGED <<page, modal, pending, reg>>
    /\ pre' = Before(ModalInit, admin.body)
    /\ UNCHANGED <<product, user, cart, header>>
    /\ UNCHANGED shown

\* admin_index.js 49-53: click on #logout-btn.
LogoutClick ==
    /\ page = "admin"
    /\ InFlight(pending) < MaxInFlight
    /\ pending' = Add(pending,
           [by |-> "logout", url |-> "/admin/logout", stale |-> FALSE])
    /\ last' = Event("logout-click", "logout-btn", "none", <<>>)
    /\ UNCHANGED <<page, modal, admin, reg>>
    /\ pre' = Before(ModalInit, <<>>)
    /\ UNCHANGED <<product, user, cart, header>>
    /\ UNCHANGED shown

\* admin_index.js 54-59: the logout request completes, in any way.
LogoutResponse(r, resp) ==
    /\ page = "admin"
    /\ r \in BagToSet(pending)
    /\ r.by = "logout"
    /\ resp \in AdminResponses(r.url)
    /\ pending' = Remove(pending, r)
    /\ admin' = logoutResume(admin)
    /\ last' = [Step("logout", "logout-btn",
                     IF resp.kind = "network" THEN "network" ELSE "http",
                     <<>>, r.url, FALSE, <<>>)
                  EXCEPT !.stale = (admin.location = LoginUrl)]
    /\ UNCHANGED <<page, modal, reg>>
    /\ pre' = Before(ModalInit, <<>>)
    /\ UNCHANGED <<product, user, cart, header>>
    /\ UNCHANGED shown

NextAdmin ==
    \/ \E resp \in AdminResponses(SessionRequest.url) : SessionResponse(resp)
    \/ \E item \in MenuItems : ItemClick(item)
    \/ \E r \in BagToSet(pending) : \E resp \in ModuleResponses(r.url) :
           ModuleResponse(r, resp)
    \/ \E t \in AdminClickTargets : AdminModalClick(t)
    \/ \E html \in ModalHtmls : OpenModal(html)
    \/ CloseModal
    \/ TimerFires
    \/ \E container \in {"content-area", "modal-body"} :
           ExecuteScriptsCall(container)
    \/ LogoutClick
    \/ \E r \in BagToSet(pending) : \E resp \in AdminResponses(r.url) :
           LogoutResponse(r, resp)

\* ---------------------------------------------------------- product: steps

\* part_000 1-16: DOMContentLoaded has run up to its return or first await.
\* The url names product 7 or no product; the customer has carts or none.
InitProduct ==
    /\ page = "product"
    /\ modal = ModalInit
    /\ admin = AdminInit
    /\ reg = RegInit
    /\ pre = Before(ModalInit, <<>>)
    /\ shown = FALSE
    /\ cart = NotLoaded
    /\ header = NotLoaded
    /\ user = NotLoaded
    /\ \E productoId \in {"", "7"} : \E carritos \in {<<>>, <<4, 9>>} :
         LET p == [ProductInit EXCEPT !.carritos = carritos]
         IN  IF productoId = ""
               THEN /\ product = mostrarError(p,
                         Mensaje("No se especificó ID de producto en la URL", 0))
                    /\ pending = EmptyBag
                    /\ last = ProductStep("load", NoResponse, <<>>, NaN,
                                          "none", "none", 0)
               ELSE /\ product = p
                    /\ pending = SetToBag({
                           ProductRequest("load", "/api/v1/productos/7", NaN, 0)})
                    /\ last = ProductStep("load", NoResponse, <<>>, NaN,
                                          "none", "/api/v1/productos/7", 0)

\* part_000 16-35: the response of GET /api/v1/productos/7 arrives.
ProductResponse(r, resp) ==
    /\ page = "product"
    /\ r \in BagToSet(pending)
    /\ r.by = "load"
    /\ resp \in ApiResponses
    /\ pending' = Remove(pending, r)
    /\ product' = IF resp.ok /\ ~jsonRejects(resp)
                    THEN configurarFormulario(
                             actualizarProductoEnDOM(product, Producto))
                    ELSE mostrarError(product, errorDeCarga(resp))
    /\ last' = ProductStep("producto", resp, <<>>, NaN, "none", "none", 0)
    /\ UNCHANGED <<page, modal, admin, reg, pre, shown, cart, header, user>>

\* part_000 99-111: submit of #formCantidad up to the first await.
CartSubmit(typed) ==
    /\ page = "product"
    /\ product.formBound
    /\ typed \in QuantityInputs
    /\ LET cantidad == parseInt(typed)
       IN  IF cantidadRechazada(cantidad)
             THEN /\ last' = ProductStep("submit", NoResponse, typed, cantidad,
                         "La cantidad debe ser al menos 1", "none", 0)
                  /\ UNCHANGED <<pending, product>>
             ELSE /\ InFlight(pending) < MaxInFlight
                  /\ product.submits < MaxSubmits
                  /\ pending' = Add(pending, ProductRequest("submit",
                         "/api/v1/carritos/cliente/1", cantidad, 0))
                  /\ product' = [product EXCEPT !.submits = @ + 1]
                  /\ last' = ProductStep("submit", NoResponse, typed, cantidad,
                         "none", "/api/v1/carritos/cliente/1", 0)
    /\ UNCHANGED <<page, modal, admin, reg, pre, shown, cart, header, user>>

\* part_000 113-143: the response of GET /api/v1/carritos/cliente/1
\* arrives: the handler goes on to post the detail line, to create a cart,
\* or to its catch.
CarritosResponse(r, resp) ==
    /\ page = "product"
    /\ r \in BagToSet(pending)
    /\ r.url = "/api/v1/carritos/cliente/1"
    /\ resp \in SubmitResponses
    /\ LET leida == resp.ok /\ ~jsonRejects(resp)
           carritoId == IF leida THEN carritoExistente(product.carritos)
                        ELSE 0
           crea == leida /\ Len(product.carritos) = 0
           next == IF crea THEN "/api/v1/carritos/"
                   ELSE IF carritoId # 0 THEN "/api/v1/carritos/{id}/detalles"
                   ELSE "none"
       IN  /\ pending' =
                 IF next = "none" THEN Remove(pending, r)
                 ELSE Add(Remove(pending, r),
                          ProductRequest("submit", next, r.cantidad, carritoId))
           /\ last' = ProductStep("carritos", resp, <<>>, r.cantidad,
                 IF resp.kind = "network" THEN "Error: Failed to fetch"
                 ELSE IF resp.ok /\ jsonRejects(resp) THEN SyntaxErrorAlert
                 ELSE IF next = "none"
                   THEN "Error: No se pudo obtener o crear el carrito"
                 ELSE "none",
                 next, carritoId)
    /\ UNCHANGED <<page, modal, admin, reg, pre, shown, cart, header, user, product>>

\* part_000 129-143: the response of POST /api/v1/carritos/ arrives.  A 2xx
\* response carries the cart the server has created.
CrearResponse(r, resp) ==
    /\ page = "product"
    /\ r \in BagToSet(pending)
    /\ r.url = "/api/v1/carritos/"
    /\ resp \in SubmitResponses
    /\ LET creado == IF resp.ok THEN nuevoId(product.carritos) ELSE 0
           carritoId == IF jsonRejects(resp) THEN 0 ELSE creado
       IN  /\ product' = IF resp.ok
                 THEN [product EXCEPT !.carritos = Append(@, creado)]
                 ELSE product
           /\ pending' =
                 IF carritoId = 0 THEN Remove(pending, r)
                 ELSE Add(Remove(pending, r),
                          ProductRequest("submit",
                              "/api/v1/carritos/{id}/detalles",
                              r.cantidad, carritoId))
           /\ last' = ProductStep("crear", resp, <<>>, r.cantidad,
                 IF resp.kind = "network" THEN "Error: Failed to fetch"
                 ELSE IF resp.ok /\ jsonRejects(resp) THEN SyntaxErrorAlert
                 ELSE IF carritoId = 0
                   THEN "Error: No se pudo obtener o crear el carrito"
                 ELSE "none",
                 IF carritoId = 0 THEN "none"
                 ELSE "/api/v1/carritos/{id}/detalles",
                 carritoId)
    /\ UNCHANGED <<page, modal, admin, reg, pre, shown, cart, header, user>>

\* part_000 152-176: the response of POST /api/v1/carritos/{id}/detalles
\* arrives.  A 2xx response means the server has stored the line.
DetalleResponse(r, resp) ==
    /\ page = "product"
    /\ r \in BagToSet(pending)
    /\ r.url = "/api/v1/carritos/{id}/detalles"
    /\ resp \in SubmitResponses
    /\ pending' = Remove(pending, r)
    /\ product' =
          LET guardado ==
                [product EXCEPT !.detalles = Append(@,
                    [id_carrito |-> r.carritoId,
                     body |-> detalleCarrito(product.producto, r.cantidad)])]
          IN  IF ~resp.ok THEN product
              ELSE IF jsonRejects(resp) THEN guardado
              ELSE agregado(guardado, r.cantidad)
    /\ last' = ProductStep("detalle", resp, <<>>, r.cantidad,
          alertaDetalle(resp), "none", r.carritoId)
    /\ UNCHANGED <<page, modal, admin, reg, pre, shown, cart, header, user>>

\* part_000 169-171: a timer set after a success fires.
CartRedirect ==
    /\ page = "product"
    /\ product.timers > 0
    /\ product' = [product EXCEPT !.timers = @ - 1, !.location = "/cart"]
    /\ last' = ProductStep("timer", NoResponse, <<>>, NaN, "none", "none", 0)
    /\ UNCHANGED <<page, modal, admin, reg, pre, shown, cart, header, user, pending>>

\* part_000 210-213: the oldest notification is removed.
NotaExpira ==
    /\ page = "product"
    /\ product.notas # <<>>
    /\ product' = [product EXCEPT !.notas = Tail(@)]
    /\ last' = ProductStep("expira", NoResponse, <<>>, NaN, "none", "none", 0)
    /\ UNCHANGED <<page, modal, admin, reg, pre, shown, cart, header, user, pending>>

NextProduct ==
    \/ \E r \in Requests("product") : \E resp \in ApiResponses :
           ProductResponse(r, resp)
    \/ \E typed \in QuantityInputs : CartSubmit(typed)
    \/ \E r \in Requests("product") : \E resp \in SubmitResponses :
           CarritosResponse(r, resp)
    \/ \E r \in Requests("product") : \E resp \in SubmitResponses :
           CrearResponse(r, resp)
    \/ \E r \in Requests("product") : \E resp \in SubmitResponses :
           DetalleResponse(r, resp)
    \/ CartRedirect
    \/ NotaExpira

\* ------------------------------------------------------------- user: steps

\* user.js 1-18: DOMContentLoaded has run up to its first await.
InitUser ==
    /\ page = "user"
    /\ modal = ModalInit
    /\ admin = AdminInit
    /\ reg = RegInit
    /\ pre = Before(ModalInit, <<>>)
    /\ shown = FALSE
    /\ cart = NotLoaded
    /\ header = NotLoaded
    /\ product = NotLoaded
    /\ user = UserInit
    /\ pending = SetToBag({UserRequest("load", "/api/v1/clientes/1", 0)})
    /\ last = UserStep("load", NoResponse, FALSE, 0, 0)

\* user.js 5-13: click on a menu button.
SectionClick(section) ==
    /\ page = "user"
    /\ section \in {"datos", "pedidos"}
    /\ user' = [user EXCEPT !.section = section]
    /\ last' = UserStep("section", NoResponse, FALSE, 0, 0)
    /\ UNCHANGED <<page, modal, admin, reg, pre, shown, cart, header, product, pending>>

\* user.js 18-27, 74-76: the response of GET /api/v1/clientes/1 arrives.
ClienteResponse(r, resp) ==
    /\ page = "user"
    /\ r \in BagToSet(pending)
    /\ r.by = "load"
    /\ r.url = "/api/v1/clientes/1"
    /\ resp \in ApiResponses
    /\ IF resp.ok /\ ~jsonRejects(resp)
         THEN /\ user' = renderUsuario(user, Cliente)
              /\ pending' = Add(Remove(pending, r),
                     UserRequest("load", "/api/v1/pedidos/cliente/1", 0))
              /\ last' = UserStep("cliente", resp, FALSE, 0, 0)
         ELSE /\ user' = user
              /\ pending' = Remove(pending, r)
              /\ last' = UserStep("cliente", resp, TRUE, 1, 0)
    /\ UNCHANGED <<page, modal, admin, reg, pre, shown, cart, header, product>>

\* user.js 27-36, 74-76, 128-140: the response of
\* GET /api/v1/pedidos/cliente/1 arrives.
PedidosResponse(r, resp, pedidos) ==
    /\ page = "user"
    /\ r \in BagToSet(pending)
    /\ r.url = "/api/v1/pedidos/cliente/1"
    /\ resp \in ApiResponses
    /\ pedidos \in PedidoLists
    /\ (resp.ok /\ ~jsonRejects(resp)) \/ pedidos = <<>>
    /\ IF resp.kind = "network" \/ jsonRejects(resp)
         THEN /\ user' = user
              /\ pending' = Remove(pending, r)
              /\ last' = UserStep("pedidos", resp, TRUE, 1, 0)
         ELSE LET u == IF resp.ok THEN renderPedidos(user, pedidos) ELSE user
              IN  /\ user' = [u EXCEPT !.formBound = TRUE]
                  /\ pending' = siguientePedido(u, Remove(pending, r))
                  /\ last' = UserStep("pedidos", resp, FALSE, 0, 0)
    /\ UNCHANGED <<page, modal, admin, reg, pre, shown, cart, header, product>>

\* user.js 140-149: the response of GET /api/v1/pedidos/{id}/detalles
\* arrives.  A rejected request rejects renderPedidos, which nothing awaits.
DetallesResponse(r, resp, detalles) ==
    /\ page = "user"
    /\ r \in BagToSet(pending)
    /\ r = DetallesRequest
    /\ resp \in ApiResponses
    /\ detalles \in DetalleLists
    /\ (resp.ok /\ ~jsonRejects(resp)) \/ detalles = <<>>
    /\ IF resp.kind = "network" \/ jsonRejects(resp)
         THEN /\ user' = [user EXCEPT !.cola = <<>>]
              /\ pending' = Remove(pending, r)
              /\ last' = UserStep("detalles", resp, TRUE, 0, 0)
         ELSE /\ user' = [user EXCEPT !.detalles = detalles]
              /\ pending' = Add(Remove(pending, r), EnvioRequest)
              /\ last' = UserStep("detalles", resp, FALSE, 0, 0)
    /\ UNCHANGED <<page, modal, admin, reg, pre, shown, cart, header, product>>

\* user.js 147-169: the response of GET /api/v1/envios/pedido/{id} arrives;
\* the products of the detail lines are fetched, all at once.
EnvioResponse(r, resp) ==
    /\ page = "user"
    /\ r \in BagToSet(pending)
    /\ r = EnvioRequest
    /\ resp \in ApiResponses
    /\ LET u == [user EXCEPT !.envio = resp.ok /\ ~jsonRejects(resp),
                     !.productos = [i \in 1..Len(user.detalles) |-> "pending"]]
           fetches == SetToBag({ProductoRequest(i) : i \in 1..Len(u.detalles)})
       IN  IF u.detalles = <<>>
             THEN /\ user' = appendPedido(u)
                  /\ pending' = siguientePedido(appendPedido(u),
                                                 Remove(pending, r))
             ELSE /\ user' = u
                  /\ pending' = Remove(pending, r) (+) fetches
    /\ last' = UserStep("envio", resp,
                        resp.kind = "network" \/ jsonRejects(resp),
                        IF resp.kind = "network" \/ jsonRejects(resp)
                          THEN 1 ELSE 0, 0)
    /\ UNCHANGED <<page, modal, admin, reg, pre, shown, cart, header, product>>

\* user.js 157-221: the response of one GET /api/v1/productos/{id} arrives;
\* when it is the last one the order is appended and the loop goes on.
ProductoResponse(r, resp) ==
    /\ page = "user"
    /\ r \in BagToSet(pending)
    /\ r.url = "/api/v1/productos/{id}"
    /\ resp \in ApiResponses
    /\ LET u == [user EXCEPT !.productos[r.index] =
                                 IF resp.ok /\ ~jsonRejects(resp)
                                   THEN "ok" ELSE "null"]
       IN  IF todosResueltos(u)
             THEN /\ user' = appendPedido(u)
                  /\ pending' = siguientePedido(appendPedido(u),
                                                 Remove(pending, r))
             ELSE /\ user' = u
                  /\ pending' = Remove(pending, r)
    /\ last' = UserStep("producto", resp,
                        resp.kind = "network" \/ jsonRejects(resp),
                        IF resp.kind = "network" \/ jsonRejects(resp)
                          THEN 1 ELSE 0, 0)
    /\ UNCHANGED <<page, modal, admin, reg, pre, shown, cart, header, product>>

\* user.js 223-234: click on the shipment button of a rendered order.
EnvioToggle(i) ==
    /\ page = "user"
    /\ user.listeners
    /\ i \in 1..Len(user.lista)
    /\ user.lista[i].envio
    /\ user' = [user EXCEPT !.lista[i].abierto = ~@]
    /\ last' = UserStep("toggle", NoResponse, FALSE, 0, 0)
    /\ UNCHANGED <<page, modal, admin, reg, pre, shown, cart, header, product, pending>>

\* user.js 36-56: submit of #form-editar-usuario up to the await.
EditSubmit ==
    /\ page = "user"
    /\ user.formBound
    /\ InFlight(pending) < MaxInFlight
    /\ pending' = Add(pending, UserRequest("edit", "/api/v1/clientes/1", 0))
    /\ last' = UserStep("edit-submit", NoResponse, FALSE, 0, 0)
    /\ UNCHANGED <<page, modal, admin, reg, pre, shown, cart, header, product, user>>

\* user.js 58-70: the response of PUT /api/v1/clientes/1 arrives.
EditResponse(r, resp) ==
    /\ page = "user"
    /\ r \in BagToSet(pending)
    /\ r.by = "edit"
    /\ resp \in SubmitResponses
    /\ pending' = Remove(pending, r)
    /\ LET leida == resp.ok /\ ~jsonRejects(resp)
       IN  /\ user' = IF leida THEN renderUsuario(user, Cliente) ELSE user
           /\ last' = UserStep("edit", resp, ~leida,
                               IF leida THEN 0 ELSE 1, 1)
    /\ UNCHANGED <<page, modal, admin, reg, pre, shown, cart, header, product>>

NextUser ==
    \/ \E section \in {"datos", "pedidos"} : SectionClick(section)
    \/ \E r \in Requests("user") : \E resp \in ApiResponses :
           ClienteResponse(r, resp)
    \/ \E r \in Requests("user") : \E resp \in ApiResponses :
         \E pedidos \in PedidoLists : PedidosResponse(r, resp, pedidos)
    \/ \E r \in Requests("user") : \E resp \in ApiResponses :
         \E detalles \in DetalleLists : DetallesResponse(r, resp, detalles)
    \/ \E r \in Requests("user") : \E resp \in ApiResponses :
           EnvioResponse(r, resp)
    \/ \E r \in Requests("user") : \E resp \in ApiResponses :
           ProductoResponse(r, resp)
    \/ \E i \in PedidoIndices : EnvioToggle(i)
    \/ EditSubmit
    \/ \E r \in Requests("user") : \E resp \in SubmitResponses :
           EditResponse(r, resp)

\* ------------------------------------------- part_004: cart page helpers

\* No more than this many runs of the pay handler are started.
MaxPagos == 1

\* part_004 658: the shipping fee of a non-empty cart, in cents.
EnvioFee == 899

\* The detail lines the server holds for the cart of customer 1 (prices in
\* cents).
Linea7 == [id_producto |-> 7, cantidad |-> 2, precio_unitario |-> 1050]
Linea8 == [id_producto |-> 8, cantidad |-> 3, precio_unitario |-> 250]
CartLists == { <<>>, <<Linea7>>, <<Linea7, Linea8>> }

\* The payment methods of the radio group, "none" when none is checked.
Metodos == {"tarjeta", "pse"}

\* part_004 502: the reference the handler generates, "none" for null.
Referencias == {"REF-7"}

\* The ways a fetch of the cart page can complete: a response, whose body
\* is JSON or (for a 2xx status, the only one whose body the handlers
\* parse) text that is no JSON, or a rejected promise (status 0).
CartStatuses == {200, 500}
CartResponses ==
    { resp \in ApiResponses : resp.kind = "http" => resp.status \in CartStatuses }

\* part_004 609-613: the sum of precio_unitario * cantidad over the lines.
RECURSIVE calcularTotal(_)
calcularTotal(detalles) ==
    IF detalles = <<>> THEN 0
    ELSE Head(detalles).precio_unitario * Head(detalles).cantidad
           + calcularTotal(Tail(detalles))

\* part_004 656-661: toFixed(2) of an amount of cents: the digits before and
\* after the decimal point.
toFixed2(cents) == [entero |-> cents \div 100, decimales |-> cents % 100]

\* The amount in cents that a text written by toFixed(2) shows.
centavos(texto) == texto.entero * 100 + texto.decimales

\* A shipping fee that would be charged on an empty cart as well.
envioDe_siempre(subtotal) == EnvioFee

\* part_004 658.
envioDe(subtotal) == IF subtotal > 0 THEN EnvioFee ELSE 0

\* part_004 631-662.
renderCarrito(c, detalles) ==
    LET subtotal == calcularTotal(detalles)
    IN  [c EXCEPT !.items = [i \in DOMAIN detalles |-> detalles[i].id_producto],
                  !.vacio = FALSE,
                  !.subtotal = toFixed2(subtotal),
                  !.envio = toFixed2(envioDe(subtotal)),
                  !.total = toFixed2(subtotal + envioDe(subtotal))]

\* part_004 664-674.
renderCarritoVacio(c) ==
    [c EXCEPT !.items = <<>>,
              !.vacio = TRUE,
              !.subtotal = toFixed2(0),
              !.envio = toFixed2(0),
              !.total = toFixed2(0),
              !.refDisabled = TRUE,
              !.pagarDisabled = TRUE]

\* A button state that would follow the payment method alone.
actualizarEstadoBoton_soloMetodo(c) ==
    [c EXCEPT !.pagarDisabled = ~(c.metodo # "none")]

\* part_004 496-499.
actualizarEstadoBoton(c) ==
    [c EXCEPT !.pagarDisabled =
                  ~(c.metodo # "none" /\ c.referencia # "none")]

\* part_004 476-510: the cart is rendered, the pay button disabled and the
\* listeners installed with the lines in their closure.
cartLoaded(c, detalles) ==
    [renderCarrito(c, detalles) EXCEPT !.pagarDisabled = TRUE,
                                       !.listeners = TRUE,
                                       !.detalles = detalles]

\* part_004 441, 456, 466, 533, 550, 565, 579, 585: the url of the request
\* that a step of the load handler or of the pay handler awaits.
CartUrl(step) ==
    IF step = "carritos" THEN "/api/v1/carritos/cliente/1"
    ELSE IF step = "lineas" THEN "/api/v1/carritos/{id}/detalles"
    ELSE IF step = "productos" THEN "/api/v1/productos/{id}"
    ELSE IF step = "pedido" THEN "/api/v1/pedidos/"
    ELSE IF step = "detalle" THEN "/api/v1/pedidos/{id}/detalles"
    ELSE IF step = "pago" THEN "/api/v1/pagos/"
    ELSE IF step = "envio" THEN "/api/v1/envios/"
    ELSE "/api/v1/carritos/{id}"

\* A loop over the lines that would stop after the first one.
siguientePaso_unaLinea(step, idx, n) ==
    IF step = "pedido" THEN (IF n > 0 THEN [step |-> "detalle", idx |-> 1]
                             ELSE [step |-> "pago", idx |-> 0])
    ELSE IF step = "detalle" THEN [step |-> "pago", idx |-> 0]
    ELSE IF step = "pago" THEN [step |-> "envio", idx |-> 0]
    ELSE IF step = "envio" THEN [step |-> "borrar", idx |-> 0]
    ELSE [step |-> "fin", idx |-> 0]

\* part_004 541-587: the request that follows the one just answered, in a
\* run over n lines: the order, one detail post per line, the payment, the
\* shipment, the deletion of the cart.
siguientePaso(step, idx, n) ==
    IF step = "pedido" THEN (IF n > 0 THEN [step |-> "detalle", idx |-> 1]
                             ELSE [step |-> "pago", idx |-> 0])
    ELSE IF step = "detalle"
        THEN (IF idx < n THEN [step |-> "detalle", idx |-> idx + 1]
              ELSE [step |-> "pago", idx |-> 0])
    ELSE IF step = "pago" THEN [step |-> "envio", idx |-> 0]
    ELSE IF step = "envio" THEN [step |-> "borrar", idx |-> 0]
    ELSE [step |-> "fin", idx |-> 0]

\* part_004 525-531, 543-548, 556-562: the amount the body of a request of
\* the pay handler carries (0 for a body without amount).
montoDe(step, idx, detalles) ==
    IF step \in {"pedido", "pago"} THEN calcularTotal(detalles)
    ELSE IF step = "detalle"
        THEN detalles[idx].precio_unitario * detalles[idx].cantidad
    ELSE 0

\* A request of the cart page: the url, and the locals of the handler that
\* waits for it.  failed is history: a request of this run that followed the
\* creation of the order was answered with a status outside 200..299.
CartRequest(by, step, idx, pedido, metodo, failed) ==
    [by |-> by, url |-> CartUrl(step), stale |-> FALSE, step |-> step,
     idx |-> idx, id_pedido |-> pedido, metodo |-> metodo, failed |-> failed]

\* history record of one step of the cart page: the event, how the request
\* it handled completed, the alert shown, the request issued, the amount in
\* its body, the order of the run, whether the run had a failed request.
CartStep(ev, step, resp, alert, issued, idx, monto, pedido, failed) ==
    [ev |-> ev, step |-> step, out |-> resp.kind, status |-> resp.status, alert |-> alert,
     issued |-> issued, idx |-> idx, monto |-> monto, id_pedido |-> pedido,
     failed |-> failed]

\* The cart page as served: nothing rendered, no listener.  detalles is the
\* closure of the listeners; carrito, lineas and pedidos are the server's:
\* whether customer 1 has a cart, its lines, the orders created.
CartInit ==
    [items |-> <<>>, vacio |-> FALSE,
     subtotal |-> toFixed2(0), envio |-> toFixed2(0), total |-> toFixed2(0),
     refDisabled |-> FALSE, pagarDisabled |-> FALSE,
     metodo |-> "none", referencia |-> "none", listeners |-> FALSE,
     detalles |-> <<>>, location |-> "/cart", runs |-> 0,
     carrito |-> TRUE, lineas |-> <<>>, pedidos |-> 0]

\* ------------------------------------------------------- cart page: steps

\* part_004 437-441: DOMContentLoaded has run up to its first await.  The
\* server holds a cart with lines for customer 1, or none; the served radio
\* group has a method checked or none.
InitCart ==
    /\ page = "cart"
    /\ modal = ModalInit
    /\ admin = AdminInit
    /\ reg = RegInit
    /\ pre = Before(ModalInit, <<>>)
    /\ shown = FALSE
    /\ product = NotLoaded
    /\ user = NotLoaded
    /\ header = NotLoaded
    /\ \E lineas \in CartLists : \E hay \in BOOLEAN :
       \E metodo \in {"none", "tarjeta"} :
         /\ (~hay => lineas = <<>>)
         /\ cart = [CartInit EXCEPT !.carrito = hay, !.lineas = lineas,
                                    !.metodo = metodo]
    /\ pending = SetToBag({CartRequest("load", "carritos", 0, 0, "none", FALSE)})
    /\ last = CartStep("load", "none", NoResponse, "none", "carritos",
                       0, 0, 0, FALSE)

\* part_004 464-476: the product fetches of Promise.all, one per line, all
\* in flight at once.
productosRequests(n) ==
    SetToBag({ CartRequest("load", "productos", i, 0, "none", FALSE)
                 : i \in 1..n })

\* part_004 441-483, 598-601: a response of the load handler arrives: the
\* cart list, the lines of the cart, or the product of one line.  Promise.all
\* resolves with the last product answer (at once for a cart without
\* lines) and rejects with the first product fetch that is rejected or whose
\* 2xx body response.json() rejects; the answers that arrive after a
\* rejection (stale) change nothing.
CargaResponse(r, resp) ==
    /\ page = "cart"
    /\ r \in Requests("cart")
    /\ r.by = "load"
    /\ resp \in CartResponses
    /\ LET n == Len(cart.lineas)
           otros == { q \in Requests("cart") \ {r} :
                        q.by = "load" /\ q.step = "productos" /\ ~q.stale }
           leida == resp.ok /\ ~jsonRejects(resp)
           issued == IF r.step = "carritos" /\ leida /\ cart.carrito
                       THEN "lineas"
                     ELSE IF r.step = "lineas" /\ leida /\ n > 0
                       THEN "productos"
                     ELSE "none"
           rechaza == r.step = "productos" /\ ~r.stale
                        /\ (resp.kind = "network" \/ jsonRejects(resp))
       IN  /\ pending' =
                 IF issued = "lineas"
                   THEN Add(Remove(pending, r),
                            CartRequest("load", "lineas", 0, 0, "none", FALSE))
                 ELSE IF issued = "productos"
                   THEN Remove(pending, r) (+) productosRequests(n)
                 ELSE IF rechaza THEN MarkStale(Remove(pending, r))
                 ELSE Remove(pending, r)
           /\ cart' =
                 IF issued # "none" \/ (r.step = "productos" /\ r.stale)
                   THEN cart
                 ELSE IF r.step = "lineas" /\ leida
                   THEN cartLoaded(cart, <<>>)
                 ELSE IF r.step = "productos" /\ ~rechaza
                   THEN (IF otros = {} THEN cartLoaded(cart, cart.lineas)
                         ELSE cart)
                 ELSE renderCarritoVacio(cart)
           /\ last' = CartStep("load", r.step, resp, "none", issued,
                               0, 0, 0, FALSE)
    /\ UNCHANGED <<page, modal, admin, reg, pre, shown, product, user, header>>

\* part_004 501-506: click on #btn-ref.
ReferenciaClick(ref) ==
    /\ page = "cart"
    /\ cart.listeners
    /\ ~cart.refDisabled
    /\ ref \in Referencias
    /\ cart' = actualizarEstadoBoton([cart EXCEPT !.referencia = ref])
    /\ last' = CartStep("referencia", "none", NoResponse,
                        "Referencia generada", "none", 0, 0, 0, FALSE)
    /\ UNCHANGED <<page, modal, admin, reg, pre, shown, product, user, header, pending>>

\* part_004 508-510: another radio of the group is checked.  The change
\* listener exists once the cart is loaded.
MetodoChange(metodo) ==
    /\ page = "cart"
    /\ metodo \in Metodos
    /\ metodo # cart.metodo
    /\ cart' = IF cart.listeners
                 THEN actualizarEstadoBoton([cart EXCEPT !.metodo = metodo])
                 ELSE [cart EXCEPT !.metodo = metodo]
    /\ last' = CartStep("metodo", "none", NoResponse, "none", "none",
                        0, 0, 0, FALSE)
    /\ UNCHANGED <<page, modal, admin, reg, pre, shown, product, user, header, pending>>

\* part_004 512-537: a click event reaches the listener of #btn-pagar (from
\* the user when the button is enabled, dispatched by a script otherwise),
\* up to the first await.
PagarClick ==
    /\ page = "cart"
    /\ cart.listeners
    /\ IF cart.metodo = "none"
         THEN /\ last' = CartStep("pagar", "none", NoResponse,
                    "Debes seleccionar un método de pago.", "none",
                    0, 0, 0, FALSE)
              /\ UNCHANGED <<pending, cart, header>>
       ELSE IF cart.referencia = "none"
         THEN /\ last' = CartStep("pagar", "none", NoResponse,
                    "Debes generar una referencia antes de pagar.", "none",
                    0, 0, 0, FALSE)
              /\ UNCHANGED <<pending, cart, header>>
       ELSE /\ cart.runs < MaxPagos
            /\ InFlight(pending) < MaxInFlight
            /\ pending' = Add(pending,
                   CartRequest("pagar", "pedido", 0, 0, cart.metodo, FALSE))
            /\ cart' = [cart EXCEPT !.runs = @ + 1]
            /\ last' = CartStep("pagar", "none", NoResponse, "none", "pedido",
                   0, montoDe("pedido", 0, cart.detalles), 0, FALSE)
    /\ UNCHANGED <<page, modal, admin, reg, pre, shown, product, user, header>>

\* part_004 533-595: a response of a run of the pay handler arrives.  Only
\* the response to the creation of the order is tested for its status and
\* has its body parsed (541); a rejected request or a body that is no JSON
\* takes the run to its catch block.
PagoResponse(r, resp) ==
    /\ page = "cart"
    /\ r \in Requests("cart")
    /\ r.by = "pagar"
    /\ resp \in CartResponses
    /\ LET n == Len(cart.detalles)
           noLeida == r.step = "pedido" /\ resp.ok /\ jsonRejects(resp)
           lanza == \/ resp.kind = "network"
                    \/ (r.step = "pedido" /\ ~resp.ok)
                    \/ noLeida
           sig == siguientePaso(r.step, r.idx, n)
           pedido == IF r.step = "pedido" THEN cart.pedidos + 1
                     ELSE r.id_pedido
           failed == r.failed \/ (r.step # "pedido" /\ resp.kind = "http"
                                    /\ ~resp.ok)
           servido == [cart EXCEPT
                         !.pedidos = IF r.step = "pedido" /\ resp.ok
                                       THEN @ + 1 ELSE @,
                         !.carrito = IF r.step = "borrar" /\ resp.ok
                                       THEN FALSE ELSE @]
       IN  IF lanza
             THEN /\ pending' = Remove(pending, r)
                  /\ cart' = servido
                  /\ last' = CartStep("respuesta", r.step, resp,
                        IF resp.kind = "network"
                          THEN "Error procesando el pago: Failed to fetch"
                        ELSE IF noLeida
                          THEN "Error procesando el pago: ${SyntaxError.message}"
                          ELSE "Error procesando el pago: Error creando pedido",
                        "none", 0, 0, r.id_pedido, failed)
           ELSE IF sig.step = "fin"
             THEN /\ pending' = Remove(pending, r)
                  /\ cart' = [servido EXCEPT !.location = "/user"]
                  /\ last' = CartStep("respuesta", r.step, resp,
                        "Pago procesado correctamente", "none",
                        0, 0, pedido, failed)
           ELSE /\ pending' = Add(Remove(pending, r),
                       CartRequest("pagar", sig.step, sig.idx, pedido,
                                   r.metodo, failed))
                /\ cart' = servido
                /\ last' = CartStep("respuesta", r.step, resp, "none",
                       sig.step, sig.idx,
                       montoDe(sig.step, sig.idx, cart.detalles),
                       pedido, failed)
    /\ UNCHANGED <<page, modal, admin, reg, pre, shown, product, user, header>>

NextCart ==
    \/ \E r \in Requests("cart") : \E resp \in CartResponses :
           CargaResponse(r, resp)
    \/ \E ref \in Referencias : ReferenciaClick(ref)
    \/ \E metodo \in Metodos : MetodoChange(metodo)
    \/ PagarClick
    \/ \E r \in Requests("cart") : \E resp \in CartResponses :
           PagoResponse(r, resp)

\* --------------------------------------------------- header.js: start-up

\* header.js 4: the default timeout of waitForHeader, in milliseconds.
Timeout == 3000

\* header.js 37: the period of the poll, in milliseconds.
Intervalo == 30

\* The time between two polls: the period, or more when the timer is late.
Retrasos == {Intervalo, 2 * Intervalo}

\* header.js 8-13: the six elements a poll looks up.
HeaderElements ==
    {"header", "btn-search", "input-busqueda", "btn-cuenta", "modal",
     "modal-content"}

\* header.js 109, 123, 129, 188, 189: the listeners initHeader installs.
HeaderListeners ==
    {"btn-cuenta:click", "modal:click", "modal-content:click",
     "btn-search:click", "input-busqueda:keydown"}

\* header.js 61-196: initHeader after the await: every listener once more.
instalar(h) ==
    [h EXCEPT !.listeners = [l \in HeaderListeners |-> @[l] + 1]]

\* header.js 25-32, 55, 61: resolve; a promise settles once, and initHeader
\* goes on past its await in the same task.
resolve(h) ==
    IF h.estado = "pending"
    THEN instalar([h EXCEPT !.estado = "resolved"])
    ELSE h

\* header.js 35, 56-59: reject; initHeader logs the error and returns.
reject(h) ==
    IF h.estado = "pending" THEN [h EXCEPT !.estado = "rejected"] ELSE h

\* A poll that would keep its interval after the timeout.
check_sinClearInterval(h, now) ==
    IF HeaderElements \subseteq h.presentes
    THEN resolve([h EXCEPT !.elapsed = now, !.interval = FALSE])
    ELSE IF now > Timeout
         THEN reject([h EXCEPT !.elapsed = now])
         ELSE [h EXCEPT !.elapsed = now]

\* header.js 7-37: one run of the interval callback, at now milliseconds
\* after start.
check(h, now) ==
    IF HeaderElements \subseteq h.presentes
    THEN resolve([h EXCEPT !.elapsed = now, !.interval = FALSE])
    ELSE IF now > Timeout
         THEN reject([h EXCEPT !.elapsed = now, !.interval = FALSE])
         ELSE [h EXCEPT !.elapsed = now]

\* header.js 199-203, 52-55, 5-7: initHeader has been called, once, and
\* waitForHeader has started its interval; no poll has run.
HeaderInit ==
    [presentes |-> {}, elapsed |-> 0, interval |-> TRUE,
     estado |-> "pending", listeners |-> [l \in HeaderListeners |-> 0]]

InitHeader ==
    /\ page = "header"
    /\ modal = ModalInit
    /\ admin = AdminInit
    /\ reg = RegInit
    /\ pending = EmptyBag
    /\ last = Event("load", "none", "none", <<>>)
    /\ pre = Before(ModalInit, <<>>)
    /\ shown = FALSE
    /\ product = NotLoaded
    /\ user = NotLoaded
    /\ cart = NotLoaded
    /\ \E els \in SUBSET HeaderElements :
         header = [HeaderInit EXCEPT !.presentes = els]

\* Another script, or the parser, adds one of the elements to the document.
Aparece(e) ==
    /\ page = "header"
    /\ e \in HeaderElements \ header.presentes
    /\ header' = [header EXCEPT !.presentes = @ \cup {e}]
    /\ UNCHANGED <<page, modal, admin, pending, reg, last, pre, shown,
                   product, user, cart>>

\* header.js 7-37: the interval fires, d milliseconds after the last poll.
Poll(d) ==
    /\ page = "header"
    /\ header.interval
    /\ header' = check(header, header.elapsed + d)
    /\ UNCHANGED <<page, modal, admin, pending, reg, last, pre, shown,
                   product, user, cart>>

Polls == \E d \in Retrasos : Poll(d)

NextHeader ==
    \/ \E e \in HeaderElements : Aparece(e)
    \/ Polls

\* ------------------------------------------------------------- the system

Init ==
    InitStore \/ InitAdmin \/ InitProduct \/ InitUser \/ InitCart \/ InitHeader
Next ==
    NextStore \/ NextAdmin \/ NextProduct \/ NextUser \/ NextCart \/ NextHeader
Spec == Init /\ [][Next]_vars

\* The start-up of header.js alone; an interval that has not been cleared
\* goes on firing.
SpecHeader == InitHeader /\ [][NextHeader]_vars /\ WF_vars(Polls)

\* ================================================================= claims

\* The account modal closed on the default menu / open on the default menu.
ClosedMenu ==
    [hidden |-> TRUE, content |-> modalInicial, large |-> FALSE,
     small |-> TRUE, closeBound |-> FALSE, sizedFor |-> modalInicial]

OpenMenu == [ClosedMenu EXCEPT !.hidden = FALSE]

CloseTargets == {"modal", "modal-close"}

\* The state of the Account Menu Flow a modal is in (spec 4.4).
FlowState(m) ==
    IF m.content = modalInicial /\ m.small /\ ~m.large THEN "MENU"
    ELSE IF m.content = addCloseButton(RegisterTemplate)
            /\ m.large /\ ~m.small THEN "REGISTER"
    ELSE IF m.content = addCloseButton(LoginTemplate)
            /\ m.small /\ ~m.large THEN "LOGIN"
    ELSE "OTHER"

FlowStates == {"MENU", "REGISTER", "LOGIN"}

\* C1: once the account modal has been shown, whenever #modal is hidden
\* #modal-content holds the default menu in small size.  Stated for a page
\* on which only header.js writes the modal.
C1_HiddenHoldsMenu ==
    (page = "store" /\ ~reg.attached /\ shown /\ modal.hidden)
        => (modal.content = modalInicial /\ modal.small /\ ~modal.large)

\* C2: in the reopened modal, the response of a fetch that header.js started
\* before the modal was closed does not replace what the modal displays.
C2_NoStaleFragmentAfterReopen ==
    (page = "store" /\ last.ev = "response" /\ last.tgt = "header"
        /\ last.stale /\ ~modal.hidden)
        => modal.content = pre.modal.content

\* C3: a close or backdrop click leaves the account modal hidden on the
\* default menu in small size, whatever it displayed; closeModal and a
\* close or backdrop click leave the admin dialog hidden, aria-hidden
\* "true", with an empty body, whatever it displayed.
C3_CloseResetsWhateverWasShown ==
    /\ (page = "store" /\ last.ev = "click" /\ last.tgt \in CloseTargets)
           => modal = ClosedMenu
    /\ (page = "admin"
           /\ \/ last.ev = "closeModal"
              \/ last.ev = "admin-click"
                 /\ last.tgt \in {"admin-modal", "modal-close"})
           => (admin.hidden /\ admin.aria = "true" /\ admin.body = <<>>)

\* C3 witness: the close control was clicked while the register form was
\* displayed in large size.
C3_Witness ==
    /\ page = "store" /\ last.ev = "click" /\ last.tgt = "modal-close"
    /\ FlowState(pre.modal) = "REGISTER" /\ ~pre.modal.hidden
    /\ modal = ClosedMenu

\* C4: after a click on the account button the modal is not hidden and
\* holds the default menu, modal-large cleared and modal-small set; showing
\* it again changes nothing, from every state.
C4_ShowOpensMenuIdempotent ==
    /\ (page = "store" /\ last.ev = "show")
           => (modal = OpenMenu /\ showModal(modal) = modal)
    /\ page = "store" => showModal(showModal(modal)) = showModal(modal)

\* C4 witness: the account button was clicked while the modal displayed the
\* register form in large size.
C4_Witness ==
    /\ page = "store" /\ last.ev = "show"
    /\ FlowState(pre.modal) = "REGISTER" /\ ~pre.modal.hidden
    /\ modal = OpenMenu

\* C5: a click inside a displayed modal hides it exactly when its target is
\* the overlay itself or the close control; for the account modal and for
\* the admin dialog.
C5_DismissalPolicy ==
    /\ (page = "store" /\ last.ev = "click")
           => (modal.hidden <=> last.tgt \in CloseTargets)
    /\ (page = "admin" /\ last.ev = "admin-click")
           => (admin.hidden <=> last.tgt \in {"admin-modal", "modal-close"})

\* C5 witness: a click on the form of the loaded register fragment left the
\* modal displayed.
C5_Witness ==
    /\ page = "store" /\ last.ev = "click" /\ last.tgt = "form-registro"
    /\ ~modal.hidden /\ FlowState(modal) = "REGISTER"

\* C6: after the first show, #modal-content carries exactly one of
\* modal-large and modal-small, and the step that last replaced the content
\* also wrote the size.  Stated for a page on which only header.js writes
\* the modal.
C6_SizePairedWithContent ==
    (page = "store" /\ ~reg.attached /\ shown)
        => /\ modal.large # modal.small
           /\ modal.sizedFor = modal.content

\* C7: with a successful fetch a register trigger leads from MENU or LOGIN
\* to REGISTER and a login trigger from MENU or REGISTER to LOGIN; a close
\* or backdrop click leads to MENU, hidden; no other step moves the modal
\* from one of the three states to another.
C7_FlowTransitions ==
    page = "store" =>
    /\ (last.ev = "response" /\ last.out = "ok"
           /\ last.url = "/register-template"
           /\ FlowState(pre.modal) \in {"MENU", "LOGIN"})
           => FlowState(modal) = "REGISTER"
    /\ (last.ev = "response" /\ last.out = "ok"
           /\ last.url = "/login-template"
           /\ FlowState(pre.modal) \in {"MENU", "REGISTER"})
           => FlowState(modal) = "LOGIN"
    /\ (last.ev = "click" /\ last.tgt \in CloseTargets)
           => (FlowState(modal) = "MENU" /\ modal.hidden)
    /\ (FlowState(pre.modal) \in FlowStates /\ FlowState(modal) \in FlowStates
           /\ FlowState(pre.modal) # FlowState(modal))
           => \/ last.ev = "response" /\ last.out = "ok"
              \/ last.ev = "click" /\ last.tgt \in CloseTargets

\* C8: after a fragment load that succeeded the container holds exactly the
\* fetched text (in the account modal behind the close control) and the
\* size of the target mode; the admin content area holds exactly the
\* fetched module html.
C8_LoadedContentIsFetchedText ==
    /\ (page = "store" /\ last.ev = "response" /\ last.out = "ok")
           => /\ modal.content = addCloseButton(last.text)
              /\ modal.large = (last.url = "/register-template")
              /\ modal.small = (last.url = "/login-template")
    /\ (page = "admin" /\ last.ev = "module" /\ last.out = "ok")
           => admin.contentArea = last.text

\* C9: after a failed fetch of an account-modal fragment (rejected or
\* non-2xx), by the content listener of header.js or by the go-login handler
\* of register.js, the content is the fixed error paragraph behind a close
\* control that hides the modal, the hidden flag and the size are as before;
\* a close click on the error content returns the modal to MENU.
C9_FetchFailureRendersError ==
    /\ (page = "store" /\ last.ev = "response" /\ last.out # "ok")
           => /\ modal.content = addCloseButton(ErrorParagraph)
              /\ modal.closeBound
              /\ modal.hidden = pre.modal.hidden
              /\ modal.large = pre.modal.large
              /\ modal.small = pre.modal.small
              /\ clickModal(modal, "modal-close") = ClosedMenu
    /\ (page = "store" /\ last.ev = "click" /\ last.tgt = "modal-close"
           /\ pre.modal.content = addCloseButton(ErrorParagraph))
           => (FlowState(modal) = "MENU" /\ modal.hidden)

\* C10: while the session check has not returned success, no module fetch
\* is in flight and the content area holds no module.
C10_SessionGate ==
    (page = "admin" /\ admin.session # "ok")
        => /\ \A r \in BagToSet(pending) : r.by # "menu"
           /\ admin.contentArea = StaticMarkup

\* A step of the admin page that handled a response and found no redirect
\* under way.
FreshAnswer(ev) == page = "admin" /\ last.ev = ev /\ ~last.stale

\* C11 as stated: on the session check and on a module fetch alike, a
\* response starts the redirect to '/admin/login' exactly when its status
\* is 401; no other status starts one.
C11_Only401Redirects ==
    (FreshAnswer("session") \/ FreshAnswer("module")) /\ last.out # "network"
        => (admin.location = LoginUrl <=> last.status = 401)

\* C11: a 401 on the session check and a 401 on a module fetch both start
\* the redirect to '/admin/login'.  On a module fetch no other completion
\* does.  On the session check every status outside 200..299 and a rejected
\* request start it as well, and no status inside 200..299 does.
C11_RedirectCauses ==
    /\ FreshAnswer("module")
          => (admin.location = LoginUrl <=> last.status = 401)
    /\ FreshAnswer("session")
          => (admin.location = LoginUrl <=> last.status \notin 200..299)
    /\ (FreshAnswer("module") \/ FreshAnswer("session"))
          => admin.location \in {"/admin", LoginUrl}

C11_Witness ==
    /\ FreshAnswer("session")
    /\ last.status = 500
    /\ admin.location = LoginUrl

\* C12: once the redirect to '/admin/login' has started (failed session
\* check, 401 on a module fetch, logout completed), no later step changes
\* the content area, the menu highlighting or the admin dialog; a module
\* response still in flight is not rendered.
C12_RedirectingIsTerminal ==
    [][(page = "admin" /\ admin.location = LoginUrl)
          => /\ admin'.contentArea = admin.contentArea
             /\ admin'.active = admin.active
             /\ admin'.hidden = admin.hidden
             /\ admin'.aria = admin.aria
             /\ admin'.body = admin.body]_vars

\* C13: a module fetch answered 401 starts the redirect and leaves the
\* content area as it was, with no error panel; every other failure (a
\* status outside 200..299, a rejected request) puts the inline error panel
\* into the content area and starts no redirect: location and session stay.
C13_ModuleFailureHandling ==
    [][(page = "admin" /\ last'.ev = "module"
            /\ last'.status \notin 200..299)
          => IF last'.status = 401
               THEN /\ admin'.location = LoginUrl
                    /\ admin'.contentArea = admin.contentArea
               ELSE /\ admin'.contentArea \in
                          { errorPanel("Failed to fetch"),
                            errorPanel("Error loading module") }
                    /\ admin'.location = admin.location
                    /\ admin'.session = admin.session]_vars

C13_Witness ==
    /\ FreshAnswer("module")
    /\ last.status = 401
    /\ admin.location = LoginUrl
    /\ admin.active # {}
    /\ admin.contentArea = StaticMarkup

\* C14: whichever way POST /admin/logout completes (2xx, any other status,
\* a rejected request), the step that handles the completion leaves the
\* page navigating to '/admin/login'.
C14_LogoutAlwaysRedirects ==
    (page = "admin" /\ last.ev = "logout") => admin.location = LoginUrl

C14_Witness ==
    /\ FreshAnswer("logout")
    /\ last.out = "network"
    /\ admin.session = "ok"
    /\ admin.location = LoginUrl

\* C15: a submit of the quantity form whose quantity is 0, negative or NaN
\* (an empty or non-numeric field) is rejected on the client with an alert
\* and issues no request; a request is issued only for an integer >= 1.
C15_QuantityValidated ==
    (page = "product" /\ last.ev = "submit")
        => LET c == parseInt(last.typed)
           IN  /\ (c.nan \/ c.val < 1)
                     => (last.issued = "none" /\ last.alert # "none")
               /\ last.issued # "none" => (~c.nan /\ c.val >= 1)

\* C16: whatever input events the two password fields have received, the
\* page holds at most one element with id 'mensaje-contrasena'; it holds
\* one exactly when both fields are non-empty; that one is the match
\* indicator when the two values are equal and the mismatch indicator
\* otherwise.
C16_PasswordIndicator ==
    /\ Len(reg.mensajes) <= 1
    /\ (page = "store" /\ last.ev = "input")
          => LET contrasena == last.form.contrasena
                 confirmar == last.form.confirmar
             IN  /\ reg.mensajes # <<>>
                       <=> (contrasena # <<>> /\ confirmar # <<>>)
                 /\ reg.mensajes # <<>>
                       => (reg.mensajes[1] = "password-match"
                             <=> contrasena = confirmar)
                 /\ reg.mensajes # <<>>
                       => (reg.mensajes[1] = "password-mismatch"
                             <=> contrasena # confirmar)

C16_Witness ==
    /\ page = "store"
    /\ last.ev = "input"
    /\ pre.modal.hidden
    /\ last.form = [contrasena |-> Pw6, confirmar |-> Pw6b]
    /\ reg.mensajes = <<"password-mismatch">>

\* The form passes the client-side checks of the registration submit.
FormularioValido(f) ==
    /\ f.contrasena = f.confirmar
    /\ Len(f.contrasena) >= 6
    /\ trim(f.nombre) # <<>>
    /\ trim(f.apellido) # <<>>
    /\ trim(f.correo) # <<>>
    /\ emailRegex(trim(f.correo))

\* C17: a submit of the registration form issues POST /api/v1/clientes/
\* only if the two passwords are equal, the password has at least 6
\* characters, nombre, apellido and correo are non-empty after trimming
\* and correo matches the e-mail pattern; in every other case it shows
\* exactly one alert and sends no request.
C17_ValidationBeforeNetwork ==
    (page = "store" /\ last.ev = "submit")
        => /\ reg.busy <=> FormularioValido(last.form)
           /\ FormularioValido(last.form) <=> last.out = "none"
           /\ last.out \in {"none", "no-coinciden", "contrasena-corta",
                             "campos-obligatorios", "correo-invalido"}

C17_Witness ==
    /\ page = "store"
    /\ last.ev = "submit"
    /\ last.form.contrasena = Pw6
    /\ last.form.correo = <<"a", "@", "b">>
    /\ last.out = "correo-invalido"
    /\ ~reg.busy

\* The detail line the server stored last, and the notification shown last.
UltimoDetalle == product.detalles[Len(product.detalles)]
UltimaNota == product.notas[Len(product.notas)]

\* C18: an accepted submit first obtains a cart id: the id of the first of
\* the customer's carts when the list has one, the id of a cart it creates
\* only when the list is empty.  It then posts one detail line
\* {id_producto, cantidad, precio_unitario: precio} to that cart, and shows
\* the success notification naming the quantity and the product's name
\* only after that post returned 2xx (with a body that is JSON; otherwise it
\* alerts and shows no notification).  When no cart id is obtained, a 2xx
\* answer that is no JSON included, it posts no detail line and shows an
\* error.
C18_AddToCart ==
    [][page = "product" =>
        /\ (last'.ev = "carritos" /\ last'.status \in 200..299
                /\ last'.alert # SyntaxErrorAlert)
              => IF product.carritos # <<>>
                   THEN /\ last'.issued = "/api/v1/carritos/{id}/detalles"
                        /\ last'.carritoId = product.carritos[1]
                        /\ product'.carritos = product.carritos
                   ELSE last'.issued = "/api/v1/carritos/"
        /\ (last'.ev = "crear" /\ last'.status \in 200..299
                /\ last'.alert # SyntaxErrorAlert)
              => /\ product'.carritos
                       = Append(product.carritos, last'.carritoId)
                 /\ last'.issued = "/api/v1/carritos/{id}/detalles"
                 /\ last'.carritoId = product'.carritos[Len(product'.carritos)]
        /\ (last'.ev \in {"carritos", "crear"}
                /\ (last'.status \notin 200..299
                        \/ last'.alert = SyntaxErrorAlert))
              => /\ last'.issued = "none"
                 /\ last'.alert # "none"
                 /\ product'.detalles = product.detalles
        /\ (last'.ev = "detalle" /\ last'.status \in 200..299)
              => /\ product'.detalles = Append(product.detalles,
                        [id_carrito |-> last'.carritoId,
                         body |-> [id_producto |-> Producto.id_producto,
                                   cantidad |-> last'.cantidad,
                                   precio_unitario |-> Producto.precio]])
                 /\ product'.notas =
                        IF last'.alert = SyntaxErrorAlert THEN product.notas
                        ELSE Append(product.notas,
                                [cantidad |-> last'.cantidad,
                                 nombre |-> Producto.nombre])
        /\ ~(last'.ev = "detalle" /\ last'.status \in 200..299)
              => /\ product'.detalles = product.detalles
                 /\ Len(product'.notas) <= Len(product.notas)
        /\ Len(product'.detalles) + InFlight(pending') <= product'.submits
       ]_vars

C18_Witness ==
    /\ page = "product"
    /\ last.ev = "detalle"
    /\ last.status = 200
    /\ last.cantidad = Num(3)
    /\ last.carritoId = 4
    /\ Len(product.detalles) = 2
    /\ UltimoDetalle.id_carrito = 4
    /\ UltimaNota = [cantidad |-> Num(3), nombre |-> "Camiseta"]

\* The user-visible actions of the last step of the product page: an
\* alert, or the error panel of the primary load.
ProductVisible ==
    (IF last.alert # "none" THEN 1 ELSE 0)
    + (IF last.ev \in {"load", "producto"}
            /\ product.container = <<"error-panel">> THEN 1 ELSE 0)

\* C19: no error is silently dropped: a step in which an error is thrown
\* (a failed primary load, a failed secondary fetch) performs exactly one
\* user-visible action, an alert, a redirect or an error panel.  On the
\* account page this covers the customer load and the fetches of
\* renderPedidos, on the product page the load and the add-to-cart flow.
C19_NoErrorSilentlyDropped ==
    /\ (page = "user" /\ last.failed) => last.visible = 1
    /\ (page = "product" /\ last.out \in {"http", "network"}
            /\ last.status \notin 200..299)
          => ProductVisible = 1
    /\ (page = "product" /\ last.ev = "load" /\ last.issued = "none")
          => ProductVisible = 1

\* C20: the primary load of the product page.  A url without id issues no
\* request and shows the error panel; a 404 shows the not-found message,
\* which no other failure shows; any other status outside 200..299 and a
\* rejected request show a generic error.  In each case the error panel
\* replaces the product container and no product detail is rendered.
C20_PrimaryLoadErrors ==
    (page = "product" /\ last.ev \in {"load", "producto"})
        => /\ (last.ev = "load" /\ last.issued = "none")
                 => /\ product.container = <<"error-panel">>
                    /\ product.mensaje.texto # "none"
                    /\ pending = EmptyBag
           /\ (last.ev = "producto" /\ last.status \notin 200..299)
                 => /\ product.container = <<"error-panel">>
                    /\ product.mensaje.texto = "Producto no encontrado"
                          <=> last.status = 404
                    /\ product.mensaje.texto # "none"
           /\ product.container = <<"error-panel">>
                 => /\ product.producto = NoProducto
                    /\ ~product.formBound

C20_Witness ==
    /\ page = "product"
    /\ last.ev = "producto"
    /\ last.status = 404
    /\ product.container = <<"error-panel">>
    /\ product.mensaje = Mensaje("Producto no encontrado", 0)

\* No module fetch of the admin page is in flight.
NoModulePending == \A r \in BagToSet(pending) : r.by # "menu"

\* The module fragments, and the fragment of the highlighted menu item.
Modules == { ModuleHtml(dataLoad(item)) : item \in {i \in MenuItems : dataLoad(i) # ""} }
ActiveModule == ModuleHtml(dataLoad(CHOOSE item \in admin.active : TRUE))

\* The last step rendered a module response with status 2xx and activated
\* its scripts.
ModuleLoaded ==
    /\ page = "admin"
    /\ last.ev = "module"
    /\ last.status \in 200..299
    /\ ~throws(last.text)

\* C21: whenever a module response with status 2xx has been handled, the
\* content area holds the fragment of that response: of two fetches in
\* flight the one answered last decides the content, whichever item was
\* clicked last.
C21_LaterResponseWins ==
    ModuleLoaded
        => /\ admin.contentArea = last.text
           /\ admin.contentArea = ModuleHtml(last.url)

\* Two items were clicked, and the response for the first arrived last.
C21_Witness ==
    /\ ModuleLoaded
    /\ NoModulePending
    /\ last.url = "/admin/productos"
    /\ admin.active = {"item-pedidos"}
    /\ admin.contentArea = ModuleHtml("/admin/productos")

\* C22 as stated: when a module response with status 2xx arrives over a
\* content area that shows a loaded module and no module fetch is left in
\* flight, the content area shows the module of the highlighted item.
C22_ContentMatchesActive ==
    [][(page = "admin" /\ last'.ev = "module" /\ last'.status \in 200..299
            /\ ~throws(last'.text)
            /\ admin.contentArea \in Modules
            /\ \A r \in BagToSet(pending') : r.by # "menu")
          => admin'.contentArea
               = ModuleHtml(dataLoad(CHOOSE item \in admin'.active : TRUE))
      ]_vars

\* C22: after a module response with status 2xx that leaves no module
\* fetch in flight, exactly one item is highlighted, and the content area
\* shows the module of that item exactly when the response answers the
\* fetch of that item; when the response to an earlier click arrives last,
\* the content area shows the earlier item's module.
C22_ContentMatchesLastAnswer ==
    (ModuleLoaded /\ NoModulePending)
        => /\ Cardinality(admin.active) = 1
           /\ admin.contentArea = ActiveModule
                 <=> last.url = dataLoad(CHOOSE item \in admin.active : TRUE)

\* The response to the earlier click on "pedidos" arrived after the one to
\* the later click on "productos".
C22_Witness ==
    /\ ModuleLoaded
    /\ NoModulePending
    /\ last.url = "/admin/pedidos"
    /\ admin.active = {"item-productos"}
    /\ admin.contentArea # ActiveModule

\* C23: a click on a menu item with a module url leaves exactly that item
\* highlighted in the same step that puts its fetch in flight, before any
\* response; a click on an item without a module url changes neither the
\* highlighting nor the content nor the requests in flight; no other step
\* of the admin page, a successful or failed module response included,
\* moves the highlighting, so the highlighted item is the last one clicked.
C23_ActiveIsLastClicked ==
    [][page = "admin"
         => /\ (last'.ev = "menu-click" /\ last'.url # "")
                 => /\ admin'.active = {last'.tgt}
                    /\ admin'.contentArea = admin.contentArea
                    /\ pending' = Add(pending,
                           [by |-> "menu", url |-> last'.url, stale |-> FALSE])
            /\ (last'.ev = "menu-click" /\ last'.url = "")
                 => /\ admin' = admin
                    /\ pending' = pending
            /\ last'.ev # "menu-click"
                 => admin'.active = admin.active
      ]_vars

\* "productos" then "pedidos" were clicked, and the fetch of "productos"
\* failed after that: the highlight is on "pedidos".
C23_Witness ==
    /\ page = "admin"
    /\ last.ev = "module"
    /\ last.status = 500
    /\ last.url = "/admin/productos"
    /\ admin.active = {"item-pedidos"}
    /\ admin.contentArea = errorPanel("Error loading module")

\* C24: a successful transition of the account menu (the listener of
\* header.js rendered a 2xx template) ends with the modal holding the
\* fetched content and with the scripts of that content run again.
C24_TransitionRunsScripts ==
    (page = "store" /\ last.ev = "response" /\ last.tgt = "header"
        /\ last.out = "ok")
        => /\ modal.content = addCloseButton(last.text)
           /\ last.ran = scriptsOf(modal.content)

\* C25: in the state reached by a failed fetch of the account menu, with the
\* modal displayed, the modal holds a register or login trigger, an element
\* whose click issues a new fetch.
C25_RetryAvailable ==
    (page = "store" /\ last.ev = "response" /\ last.tgt = "header"
        /\ last.out # "ok" /\ ~modal.hidden)
        => \E t \in ClickTargets : clickFetches(t) # "none"

\* C26: after the handling of a fragment response whose status is not 2xx
\* (a register or login template, an admin module) the body of that
\* response is not what the modal content or the content area holds.
C26_NonOkBodyNeverInserted ==
    /\ (page = "store" /\ last.ev = "response" /\ last.out = "http")
           => /\ modal.content # last.text
              /\ modal.content # addCloseButton(last.text)
    /\ (page = "admin" /\ last.ev = "module" /\ last.status \notin 200..299)
           => admin.contentArea # last.text

\* C27: a flow re-executes the scripts of the content that this flow
\* rendered, each once, after rendering it: a module response runs the
\* scripts of its own html in the step that renders it, and the timer set
\* by openModal(html) runs the scripts of that html when it fires, also
\* when closeModal or another openModal has run in between.
C27_FlowRunsItsOwnScripts ==
    [][page = "admin"
         => /\ (last'.ev = "module" /\ last'.status \in 200..299
                    /\ ~throws(last'.text))
                 => /\ admin'.contentArea = last'.text
                    /\ last'.ran = scriptsOf(last'.text)
                    /\ admin'.head
                         = admin.head + Len(headAppends(last'.text))
            /\ last'.ev = "timer"
                 => /\ last'.ran = scriptsOf(Head(admin.timers))
                    /\ admin'.head
                         = admin.head + Len(headAppends(Head(admin.timers)))
      ]_vars

\* C28: after a module response with status 2xx the content area does not
\* hold an error panel, and every script of the fragment other than one
\* whose activation failed has been activated: the inline ones have run and
\* the external ones are in document.head.
C28_ScriptFailureIsContained ==
    [][(page = "admin" /\ last'.ev = "module" /\ last'.status \in 200..299)
          => /\ admin'.contentArea = last'.text
             /\ last'.ran = activated_guarded(last'.text)
             /\ admin'.head
                  = admin.head
                      + Len(SelectSeq(activated_guarded(last'.text),
                                      LAMBDA e : e \in ExternalScripts))
      ]_vars

\* C29: a step that runs executeScripts over a container (a rendered 2xx
\* module fragment, the dialog body when a timer fires) visits every script
\* of the container once, in document order; the children of document.body
\* are the same after the step as before; document.head has gained exactly
\* one script element per external script, and every new script element
\* carries all the attributes of the script it was made from.
C29_ExecuteScriptsEffect ==
    [][(page = "admin"
          /\ \/ last'.ev = "module" /\ last'.status \in 200..299
             \/ last'.ev = "timer")
          => /\ last'.ran = scriptsOf(last'.text)
             /\ admin'.children = admin.children
             /\ admin'.head
                  = admin.head
                      + Len(SelectSeq(scriptsOf(last'.text),
                                      LAMBDA e : e \in ExternalScripts))
             /\ \A i \in 1..Len(last'.ran) :
                    newScriptAttributes(last'.ran[i])
                        = Attributes(last'.ran[i])
      ]_vars

\* C30: on the admin page the dialog has the class 'hidden' exactly when
\* its aria-hidden is 'true'; after openModal(html) it is displayed and its
\* body holds html; after closeModal(), also when run by a click on the
\* close control or on the backdrop, it is hidden and its body is empty.
C30_DialogFlagsAgree ==
    page = "admin"
        => /\ admin.hidden <=> admin.aria = "true"
           /\ ~admin.hidden <=> admin.aria = "false"
           /\ last.ev = "openModal"
                => (~admin.hidden /\ admin.body = last.text)
           /\ (\/ last.ev = "closeModal"
               \/ last.ev = "admin-click" /\ adminClickCloses(last.tgt))
                => (admin.hidden /\ admin.body = <<>>)

\* The dialog was opened with a form and closed by a click on the backdrop
\* while the timer of openModal was still waiting.
C30_Witness ==
    /\ page = "admin"
    /\ last.ev = "admin-click"
    /\ last.tgt = "admin-modal"
    /\ pre.body # <<>>
    /\ admin.timers # <<>>
    /\ admin.hidden
    /\ admin.aria = "true"
    /\ admin.body = <<>>

\* C31: in every state of the store page, a modal whose content is the
\* register fragment has the large size, and a modal whose content is the
\* login fragment or the default menu has the small size.
C31_ContentAndSizePaired ==
    page = "store"
        => /\ modal.content \in {addCloseButton(RegisterTemplate),
                                 RegisterTemplate}
                => (modal.large /\ ~modal.small)
           /\ modal.content \in {addCloseButton(LoginTemplate),
                                 LoginTemplate, modalInicial}
                => (modal.small /\ ~modal.large)

\* The same for the content written by header.js alone.
C31_HeaderPairsContentAndSize ==
    page = "store"
        => /\ modal.content = addCloseButton(RegisterTemplate)
                => (modal.large /\ ~modal.small)
           /\ modal.content \in {addCloseButton(LoginTemplate), modalInicial}
                => (modal.small /\ ~modal.large)

\* C32: when the customer had no cart at load, whatever way submissions of
\* the add-to-cart form overlap, the customer has at most one cart and all
\* detail lines posted are lines of that one cart.
C32_OneCartUnderReentry ==
    (page = "product" /\ 4 \notin Range(product.carritos))
        => /\ Len(product.carritos) <= 1
           /\ \A i, j \in 1..Len(product.detalles) :
                  product.detalles[i].id_carrito
                      = product.detalles[j].id_carrito

\* The alerts of the catch block of the pay handler.
PagoErrores ==
    {"Error procesando el pago: Failed to fetch",
     "Error procesando el pago: Error creando pedido"}

\* C33: the step that handles a non-2xx answer to a request of the checkout
\* shows an error alert; and a run in which a request after the creation of
\* the order was answered non-2xx does not go on to delete the cart, does
\* not report 'Pago procesado correctamente' and does not redirect.
C33_CheckoutFailuresSurfaced ==
    (page = "cart" /\ last.ev = "respuesta")
        => /\ (last.out = "http" /\ last.status \notin 200..299)
                => last.alert \in PagoErrores
           /\ last.failed
                => /\ last.issued # "borrar"
                   /\ last.alert # "Pago procesado correctamente"
                   /\ ~(last.step = "borrar" /\ cart.location = "/user")

\* C34: a run of the pay handler starts with the creation of the order; the
\* step that handles the answer to one request of the run issues the next
\* one and no other: after the order the detail posts, one per line of the
\* cart in order, then the payment, the shipment, the deletion of the cart,
\* and after that the redirect; when the creation of the order fails
\* (status outside 200..299, rejected request) the run issues nothing more,
\* shows an alert and leaves the server's cart, the rendered cart and the
\* location as they were.  A run also ends, with an alert and no further
\* request, on a 2xx answer to the creation whose body is no JSON.
C34_CheckoutOrdering ==
    [][page = "cart"
         => /\ (last'.ev = "pagar" /\ last'.issued # "none")
                 => /\ last'.issued = "pedido"
                    /\ InFlight(pending') = InFlight(pending) + 1
            /\ last'.ev = "respuesta"
                 => LET n == Len(cart.detalles)
                        failedCreation ==
                            /\ last'.step = "pedido"
                            /\ last'.status \notin 200..299
                        rejected == last'.out = "network"
                        unread ==
                            /\ last'.step = "pedido"
                            /\ last'.status \in 200..299
                            /\ last'.alert # "none"
                        expected ==
                            IF last'.step = "pedido"
                              THEN (IF n > 0 THEN "detalle" ELSE "pago")
                            ELSE IF last'.step = "detalle"
                              THEN (IF \E r \in BagToSet(pending) :
                                          /\ r.step = "detalle"
                                          /\ r.idx < n
                                          /\ r \notin BagToSet(pending')
                                      THEN "detalle" ELSE "pago")
                            ELSE IF last'.step = "pago" THEN "envio"
                            ELSE IF last'.step = "envio" THEN "borrar"
                            ELSE "none"
                    IN  /\ InFlight(pending') <= InFlight(pending)
                        /\ (failedCreation \/ rejected)
                             => /\ last'.issued = "none"
                                /\ last'.alert \in PagoErrores
                                /\ InFlight(pending') = InFlight(pending) - 1
                                /\ cart'.location = cart.location
                                /\ cart'.items = cart.items
                                /\ cart'.total = cart.total
                        /\ failedCreation
                             => /\ cart'.carrito = cart.carrito
                                /\ cart'.pedidos = cart.pedidos
                        /\ unread
                             => /\ last'.issued = "none"
                                /\ last'.alert \notin PagoErrores
                                /\ InFlight(pending') = InFlight(pending) - 1
                                /\ cart'.location = cart.location
                                /\ cart'.items = cart.items
                                /\ cart'.total = cart.total
                        /\ ~(failedCreation \/ rejected \/ unread)
                             => /\ last'.issued = expected
                                /\ last'.issued = "detalle"
                                     => last'.idx
                                          = IF last'.step = "pedido" THEN 1
                                            ELSE 1 + CHOOSE i \in 1..n :
                                                   \E r \in BagToSet(pending) :
                                                      /\ r.step = "detalle"
                                                      /\ r.idx = i
                                                      /\ r \notin
                                                           BagToSet(pending')
                                /\ cart'.location
                                     = IF last'.step = "borrar" THEN "/user"
                                       ELSE cart.location
                                /\ last'.alert = "Pago procesado correctamente"
                                     <=> last'.step = "borrar"
      ]_vars

\* A run over a cart of two lines has reached the redirect.
C34_Witness ==
    /\ page = "cart"
    /\ last.ev = "respuesta"
    /\ last.step = "borrar"
    /\ Len(cart.detalles) = 2
    /\ cart.location = "/user"
    /\ cart.pedidos = 1
    /\ pending = EmptyBag

\* C35: the total shown by renderCarrito is the subtotal plus the shipping
\* fee of 8.99 when the subtotal is greater than 0 and plus 0 otherwise, and
\* the amount in the body of the order post and of the payment post equals
\* the total shown.
C35_ChargedEqualsDisplayed ==
    (page = "cart" /\ cart.listeners)
        => /\ centavos(cart.total)
                = calcularTotal(cart.detalles)
                    + (IF calcularTotal(cart.detalles) > 0 THEN 899 ELSE 0)
           /\ last.issued \in {"pedido", "pago"}
                => last.monto = centavos(cart.total)

\* C36: on a loaded cart the pay button is enabled exactly when a payment
\* method is checked and a reference has been generated, and a step of the
\* pay handler that issues a request was taken with both.
C36_PayButtonGating ==
    (page = "cart" /\ cart.listeners)
        => /\ ~cart.pagarDisabled
                <=> (cart.metodo # "none" /\ cart.referencia # "none")
           /\ (last.ev = "pagar" /\ last.issued # "none")
                => (cart.metodo # "none" /\ cart.referencia # "none")
           /\ (last.ev = "pagar"
                 /\ (cart.metodo = "none" \/ cart.referencia = "none"))
                => (last.issued = "none" /\ last.alert # "none"
                      /\ pending = EmptyBag)

\* A reference was generated first and a method checked after it, on a cart
\* with lines: the button is enabled.
C36_Witness ==
    /\ page = "cart"
    /\ cart.listeners
    /\ cart.items # <<>>
    /\ last.ev = "metodo"
    /\ cart.referencia # "none"
    /\ cart.metodo = "pse"
    /\ ~cart.pagarDisabled

\* C37: the submit button of the registration form is disabled, with the
\* label 'Registrando...', exactly while a POST /api/v1/clientes/ is in
\* flight, so at most one is in flight; after every completion (created,
\* HTTP error, unparsable body, network failure) the button is enabled and
\* its label is 'Crear cuenta'.
C37_SubmitButton ==
    (page = "store" /\ reg.attached)
        => /\ reg.posts <= 1
           /\ reg.busy <=> reg.posts = 1
           /\ reg.busy <=> reg.label = "Registrando..."
           /\ last.ev = "registered"
                => (~reg.busy /\ reg.label = "Crear cuenta")

\* The POST was answered with an unparsable body: the button is enabled
\* again.
C37_Witness ==
    /\ page = "store"
    /\ reg.attached
    /\ last.ev = "registered"
    /\ last.out = "bad-json"
    /\ ~reg.busy
    /\ reg.label = "Crear cuenta"
    /\ reg.posts = 0

\* C38: waitForHeader settles: it resolves at the first poll that finds all
\* six elements, rejects at the first poll later than the timeout that does
\* not, and stays pending at any other poll; once settled its interval is
\* cleared; initHeader has installed each listener exactly once after a
\* resolution and none before it or after a rejection.
C38_HeaderInitTerminates ==
    /\ <>(header.estado # "pending")
    /\ [](/\ header.estado # "pending" => ~header.interval
          /\ \A l \in HeaderListeners :
                header.listeners[l] = IF header.estado = "resolved" THEN 1 ELSE 0)
    /\ [][(header'.elapsed # header.elapsed)
            => /\ header.estado = "pending"
               /\ header'.estado =
                    IF header.presentes = HeaderElements THEN "resolved"
                    ELSE IF header'.elapsed > Timeout THEN "rejected"
                    ELSE "pending"]_vars

\* The timeout passed with #modal missing: rejected, no listener, no more
\* polls, also when the element turns up afterwards.
C38_Witness ==
    /\ page = "header"
    /\ header.estado = "rejected"
    /\ header.elapsed > Timeout
    /\ ~header.interval
    /\ header.presentes = HeaderElements
    /\ \A l \in HeaderListeners : header.listeners[l] = 0

====
